---- MODULE Spec2Model ----
(***************************************************************************)
(* Model of the agent task orchestration core of Bloop-Site's backend:     *)
(* src/backend/src/services/agent/{queue,fault_tolerance,manager,          *)
(* monitoring,security,decomposer,timeout}.rs.                             *)
(*                                                                         *)
(* The variables are the fields of AgentManager (manager.rs:25-36) plus    *)
(* the wall clock, the positions of the running tasks, and observers that  *)
(* record what the last call returned.                                     *)
(***************************************************************************)
EXTENDS Integers, Sequences, FiniteSets, TLC

VARIABLES
    now,              \* wall clock (Utc::now()), in ticks
    task_queue,       \* TaskQueue: queue (the heap), max_size, current_size
    backpressure,     \* BackpressureManager: max_concurrent_tasks, current_concurrent
    circuit_breaker,  \* CircuitBreaker: state, counters, last_failure_time, thresholds
    tasks,            \* AgentManager.tasks: task id -> AgentTask
    agents,           \* AgentManager.agents: agent id -> Agent
    health_monitor,   \* HealthMonitor: agent_health, unhealthy_threshold
    metrics,          \* MetricsCollector.metrics
    security_config,  \* AgentSecurityConfig
    checkpoint_manager, \* CheckpointManager.checkpoints: task id -> TaskCheckpoint
    retry,            \* the running execute_with_retry call
    locks,            \* holders of the write locks of TaskQueue.queue and .current_size
    uuid,             \* ids handed out so far by Uuid::new_v4()
    callers,          \* the running create_task calls
    loop,             \* the queue_processor task
    execs,            \* the executions spawned by queue_processor, by task id
    pending,          \* calls of concurrent threads on one BackpressureManager
    ret,              \* observer: the last call and what it returned
    obs               \* observer: streaks of breaker calls, effects of create_task calls

\* The manager's tables and tasks, apart from queue, limiter and breaker.
orchVars == <<tasks, agents, health_monitor, metrics, security_config,
              checkpoint_manager, retry, locks, uuid, callers, loop, execs>>

vars == <<now, task_queue, backpressure, circuit_breaker, orchVars, pending,
          ret, obs>>

\* What the runs of a single component leave alone.
restVars == <<pending, orchVars>>

(***************************************************************************)
(* Bounds of the model.                                                    *)
(***************************************************************************)
TicksPerSec == 2      \* clock resolution: one tick is half a second
MaxMinutes == 1       \* the clock is sampled in the first MaxMinutes+1 minutes
MaxSubTicks == 3      \* ... at most MaxSubTicks ticks after a whole minute
MaxEnq == 3           \* enqueue calls in a run of the queue alone
MaxQueueSize == 2     \* largest max_size given to TaskQueue::new
MaxConcurrent == 2    \* largest max_concurrent_tasks given to BackpressureManager::new
MaxThreshold == 3     \* largest failure_threshold given to CircuitBreaker::new
MaxFailures == 4      \* failure_count is not driven beyond this
MaxRecords == 4       \* record_execution calls in a run of the health monitor
MaxUnhealthy == 3     \* greatest unhealthy_threshold tried
MaxCheckpointCalls == 4  \* calls made on the CheckpointManager
MaxRetries == 2       \* largest max_retries of a RetryConfig
MaxDelayMs == 3       \* largest initial_delay and max_delay, in milliseconds
MaxAgentCalls == 4    \* create_agent calls in a run
MaxCalls == 2         \* create_task calls in a run of the manager
DescLimit == 1        \* max_task_description_length (10000 by default)
FilesLimit == 2       \* max_files_per_context (100 by default)
FileSizeLimit == 2    \* max_file_context_size (1000000 by default)
ContextSizeLimit == 3 \* max_context_size_bytes (10000000 by default)
TaskLimit == 3        \* max_tasks_per_user (1000 by default)
AgentLimit == 2       \* max_agents_per_user (500 by default)
QueueCapacity == 1    \* TaskQueue::new(2000) in the manager
ConcurrentLimit == 2  \* BackpressureManager::new(200) in the manager
FailureThreshold == 2 \* CircuitBreaker::new(5, ..) in the manager
UnhealthyThreshold == 2 \* HealthMonitor::new(3) in the manager

(***************************************************************************)
(* Program constants.                                                      *)
(***************************************************************************)
SecsPerAgePoint == 60 \* queue.rs:73  age_seconds / 60
SuccessThreshold == 3 \* fault_tolerance.rs:45
BreakerTimeoutSecs == 60 \* manager.rs:48
RoomyLimit == 3       \* a queue capacity and agent limit one task does not reach
LateMinutes == 6      \* a time later than any submitted kind's timeout
IdStride == 10        \* ids of a task's sub-tasks follow its own id

None == "None"
NoTask == 0     \* Option<AgentTask>::None, where a task id is expected
NoTime == -1    \* Option<DateTime>::None

Priorities == {"Low", "Medium", "High", "Urgent"}
TaskTypes == {"CodeGeneration", "CodeAnalysis", "Refactoring",
              "Debugging", "Documentation", "Testing"}

(***************************************************************************)
(* Time.  chrono's Duration::num_seconds() and std's Duration::as_secs()   *)
(* both drop the fraction of a second.                                     *)
(***************************************************************************)
TicksPerMinute == 60 * TicksPerSec

num_seconds(d) == IF d >= 0 THEN d \div TicksPerSec ELSE -((-d) \div TicksPerSec)

as_secs(d) == d \div TicksPerSec

\* The instants at which the model samples the clock.
Instants(minutes, subTicks) ==
    {m * TicksPerMinute + s : m \in 0..minutes, s \in 0..subTicks}

\* Time passes.
Advance(instants) == \E t \in instants : t > now /\ now' = t

(***************************************************************************)
(* TaskQueue (queue.rs:14-135).                                            *)
(***************************************************************************)
cmp(a, b) == IF a < b THEN "Less" ELSE IF a > b THEN "Greater" ELSE "Equal"

then_with(first, second) == IF first = "Equal" THEN second ELSE first

\* impl Ord for QueuedTask: self.cmp(other)
QueuedTaskCmp(self, other) ==
    then_with(cmp(other.priority_score, self.priority_score),
              cmp(self.queued_at, other.queued_at))

\* BinaryHeap::pop returns a greatest element of the heap under Ord; which
\* one of several equal elements is not determined.
HeapPop(heap) == {x \in heap : \A y \in heap : QueuedTaskCmp(x, y) # "Less"}

PriorityMultiplier(p) ==
    CASE p = "Urgent" -> 1000
      [] p = "High"   -> 500
      [] p = "Medium" -> 100
      [] p = "Low"    -> 10

calculate_priority_score(task, t) ==
    PriorityMultiplier(task.priority)
        + (num_seconds(t - task.created_at) \div SecsPerAgePoint)

QueueIsFull_OffByOne(q) == q.current_size > q.max_size

QueueIsFull(q) == q.current_size >= q.max_size

\* The heap is a multiset: seq tells apart two pushes of equal items.
NextSeq(q) == IF q.queue = {} THEN 1
              ELSE 1 + CHOOSE n \in {x.seq : x \in q.queue} :
                           \A m \in {x.seq : x \in q.queue} : m <= n

\* TaskQueue::enqueue, the item built before the queue lock is taken
QueuedTask(task, t) ==
    [task |-> task, priority_score |-> calculate_priority_score(task, t),
     queued_at |-> t]

\* TaskQueue::enqueue, the part inside both locks
QueuePush(q, item) ==
    [q EXCEPT !.queue = @ \cup {[task |-> item.task,
                                 priority_score |-> item.priority_score,
                                 queued_at |-> item.queued_at,
                                 seq |-> NextSeq(q)]},
              !.current_size = @ + 1]

\* TaskQueue::dequeue, the part inside both locks, of the item popped
QueueRemove(q, item) ==
    [q EXCEPT !.queue = @ \ {item}, !.current_size = @ - 1]

QueueClear(q) == [q EXCEPT !.queue = {}, !.current_size = 0]

NewTaskQueue(max_size) == [queue |-> {}, max_size |-> max_size, current_size |-> 0]

NewBackpressure(n) == [max_concurrent_tasks |-> n, current_concurrent |-> 0]

NewCircuitBreaker(failure_threshold, timeout) ==
    [state |-> "Closed", failure_count |-> 0, success_count |-> 0,
     last_failure_time |-> NoTime, failure_threshold |-> failure_threshold,
     success_threshold |-> SuccessThreshold, timeout |-> timeout]

(***************************************************************************)
(* BackpressureManager (queue.rs:137-178).  Each call holds the write lock *)
(* on current_concurrent from its first statement to its last, so a call   *)
(* is one step.                                                            *)
(***************************************************************************)
can_accept(bp) == bp.current_concurrent < bp.max_concurrent_tasks

reserve_AtCapacityOffByOne(bp) ==
    IF bp.current_concurrent > bp.max_concurrent_tasks
    THEN [bp |-> bp, ok |-> FALSE]
    ELSE [bp |-> [bp EXCEPT !.current_concurrent = @ + 1], ok |-> TRUE]

reserve(bp) ==
    IF bp.current_concurrent >= bp.max_concurrent_tasks
    THEN [bp |-> bp, ok |-> FALSE]
    ELSE [bp |-> [bp EXCEPT !.current_concurrent = @ + 1], ok |-> TRUE]

release_Keep(bp) == bp

release(bp) ==
    IF bp.current_concurrent > 0
    THEN [bp EXCEPT !.current_concurrent = @ - 1]
    ELSE bp

current_count(bp) == bp.current_concurrent

(***************************************************************************)
(* CircuitBreaker (fault_tolerance.rs:18-114).  Each call takes the write  *)
(* lock on state first and holds it to the end, so a call is one step.     *)
(***************************************************************************)
is_open(cb) == cb.state = "Open"

record_success_OffByOne(cb) ==
    CASE cb.state = "HalfOpen" ->
            IF cb.success_count + 1 > cb.success_threshold
            THEN [cb EXCEPT !.state = "Closed", !.failure_count = 0,
                            !.success_count = 0]
            ELSE [cb EXCEPT !.success_count = @ + 1]
      [] cb.state = "Closed" -> [cb EXCEPT !.failure_count = 0]
      [] cb.state = "Open" -> cb

record_success(cb) ==
    CASE cb.state = "HalfOpen" ->
            IF cb.success_count + 1 >= cb.success_threshold
            THEN [cb EXCEPT !.state = "Closed", !.failure_count = 0,
                            !.success_count = 0]
            ELSE [cb EXCEPT !.success_count = @ + 1]
      [] cb.state = "Closed" -> [cb EXCEPT !.failure_count = 0]
      [] cb.state = "Open" -> cb

record_failure_OffByOne(cb, t) ==
    [cb EXCEPT !.failure_count = @ + 1,
               !.last_failure_time = t,
               !.state = IF cb.failure_count + 1 > cb.failure_threshold
                         THEN "Open" ELSE @]

record_failure_HalfOpenReopens(cb, t) ==
    [cb EXCEPT !.failure_count = @ + 1,
               !.last_failure_time = t,
               !.state = IF \/ cb.failure_count + 1 >= cb.failure_threshold
                            \/ cb.state = "HalfOpen"
                         THEN "Open" ELSE @]

record_failure(cb, t) ==
    [cb EXCEPT !.failure_count = @ + 1,
               !.last_failure_time = t,
               !.state = IF cb.failure_count + 1 >= cb.failure_threshold
                         THEN "Open" ELSE @]

try_half_open_ResetsFailures(cb, t) ==
    IF /\ cb.last_failure_time # NoTime
       /\ num_seconds(t - cb.last_failure_time) >= as_secs(cb.timeout)
    THEN [cb |-> [cb EXCEPT !.state = "HalfOpen", !.success_count = 0,
                            !.failure_count = 0],
          ok |-> TRUE]
    ELSE [cb |-> cb, ok |-> FALSE]

try_half_open(cb, t) ==
    IF /\ cb.last_failure_time # NoTime
       /\ num_seconds(t - cb.last_failure_time) >= as_secs(cb.timeout)
    THEN [cb |-> [cb EXCEPT !.state = "HalfOpen", !.success_count = 0],
          ok |-> TRUE]
    ELSE [cb |-> cb, ok |-> FALSE]

Threads == {"t1", "t2"}

Callers == {"c1", "c2"}

NoObs == [fail_streak |-> -1, success_streak |-> -1,
          touched |-> [c \in Callers |-> FALSE],
          touched_agents |-> [c \in Callers |-> FALSE],
          full_at_call |-> [c \in Callers |-> FALSE],
          enqueued |-> {}, history |-> <<>>,
          before |-> None, half_open_from |-> None, log |-> <<>>]

NoPending == [th \in Threads |-> [op |-> None, result |-> None]]

(***************************************************************************)
(* AgentManager (manager.rs).                                              *)
(***************************************************************************)
IdleCaller == [pc |-> "idle", task |-> NoTask, base |-> NoTask, type |-> None,
               priority |-> None,
               created_at |-> NoTime, subs |-> <<>>, item |-> None,
               result |-> None]

IdleLoop == [pc |-> "can_accept", item |-> None]

NewHealthMonitor(unhealthy_threshold) ==
    [agent_health |-> <<>>, unhealthy_threshold |-> unhealthy_threshold]

NewMetrics ==
    [total_agents_created |-> 0, total_tasks_executed |-> 0,
     successful_tasks |-> 0, failed_tasks |-> 0,
     active_agents |-> 0, active_tasks |-> 0]

NewCheckpointManager == [checkpoints |-> <<>>]

\* no execute_with_retry call is running
NoRetry == [pc |-> "idle"]

\* The manager's tables and tasks of a run in which only one component is used.
OrchIdle ==
    /\ tasks = <<>>
    /\ agents = <<>>
    /\ health_monitor = NewHealthMonitor(1)
    /\ metrics = NewMetrics
    /\ security_config = [max_task_description_length |-> 1,
                          max_agents_per_user |-> 1, max_tasks_per_user |-> 1,
                          max_file_context_size |-> 1, max_files_per_context |-> 1,
                          max_context_size_bytes |-> 1]
    /\ checkpoint_manager = NewCheckpointManager
    /\ retry = NoRetry
    /\ locks = [queue |-> None, size |-> None]
    /\ uuid = 0
    /\ callers = [c \in Callers |-> IdleCaller]
    /\ loop = IdleLoop
    /\ execs = <<>>

Insert(map, key, value) ==
    [k \in DOMAIN map \cup {key} |-> IF k = key THEN value ELSE map[k]]

(***************************************************************************)
(* Input validation (security.rs).  A description is a sequence of         *)
(* characters; a file of a context is its path (what the checks read of    *)
(* it) and its content (its length, and whether a NUL is in it).           *)
(***************************************************************************)
NUL == "\\0"

AllowedExtensions == {"rs", "ts", "md"}

validate_task_description(description, config) ==
    IF Len(description) > config.max_task_description_length
    THEN "TaskDescriptionTooLong"
    ELSE IF \E i \in 1..Len(description) : description[i] = NUL
         THEN "InvalidTaskDescription"
         ELSE "Ok"

validate_file_path(path) ==
    IF path.dotdot THEN "InvalidFilePath"
    ELSE IF path.absolute THEN "InvalidFilePath"
    ELSE IF path.nul THEN "InvalidFilePath"
    ELSE "Ok"

validate_file_extension(path, config) ==
    IF path.ext \notin AllowedExtensions THEN "InvalidFileExtension" ELSE "Ok"

\* validate_context, the checks made of one file, in the code's order
validate_file(file, config) ==
    IF validate_file_path(file.path) # "Ok" THEN validate_file_path(file.path)
    ELSE IF validate_file_extension(file.path, config) # "Ok"
         THEN validate_file_extension(file.path, config)
    ELSE IF file.size > config.max_file_context_size THEN "FileTooLarge"
    ELSE IF file.nul THEN "InvalidContext"
    ELSE "Ok"

RECURSIVE total_size(_)
total_size(files) ==
    IF files = <<>> THEN 0 ELSE Head(files).size + total_size(Tail(files))

validate_context(context, config) ==
    LET files == context.files
        bad == {i \in 1..Len(files) : validate_file(files[i], config) # "Ok"}
    IN  IF Len(files) > config.max_files_per_context THEN "TooManyFiles"
        ELSE IF bad # {}
             THEN validate_file(
                      files[CHOOSE i \in bad : \A j \in bad : i <= j], config)
        ELSE IF total_size(files) > config.max_context_size_bytes
             THEN "ContextTooLarge"
        ELSE "Ok"

validate_agent_count_OffByOne(count, config) ==
    IF count > config.max_agents_per_user THEN "TooManyAgents" ELSE "Ok"

validate_agent_count(count, config) ==
    IF count >= config.max_agents_per_user THEN "TooManyAgents" ELSE "Ok"

validate_task_count(count, config) ==
    IF count >= config.max_tasks_per_user THEN "TooManyTasks" ELSE "Ok"

DefaultSecurityConfig ==
    [max_task_description_length |-> DescLimit,
     max_agents_per_user |-> AgentLimit,
     max_tasks_per_user |-> TaskLimit,
     max_file_context_size |-> FileSizeLimit,
     max_files_per_context |-> FilesLimit,
     max_context_size_bytes |-> ContextSizeLimit]

(***************************************************************************)
(* The requests the model submits: every kind and priority with a valid    *)
(* description and context, and one request for each way of being invalid. *)
(***************************************************************************)
GoodPath == [dotdot |-> FALSE, absolute |-> FALSE, nul |-> FALSE, ext |-> "rs"]

GoodFile == [path |-> GoodPath, size |-> 1, nul |-> FALSE]

GoodDescription == <<"a">>

NoContext == [files |-> <<>>]

BadDescriptions ==
    {[i \in 1..(DescLimit + 1) |-> "a"], <<NUL>>}

BadContexts ==
    {[files |-> <<[GoodFile EXCEPT !.path.dotdot = TRUE]>>],
     [files |-> <<[GoodFile EXCEPT !.path.absolute = TRUE]>>],
     [files |-> <<[GoodFile EXCEPT !.path.ext = "exe"]>>],
     [files |-> <<[GoodFile EXCEPT !.size = FileSizeLimit + 1]>>],
     [files |-> <<[GoodFile EXCEPT !.nul = TRUE]>>],
     [files |-> [i \in 1..(FilesLimit + 1) |-> GoodFile]],
     [files |-> [i \in 1..FilesLimit |->
                    [GoodFile EXCEPT !.size = FileSizeLimit]]]}

SubmitTypes == {"CodeGeneration", "CodeAnalysis"}

SubmitPriorities == {"High"}

Requests ==
    {[id |-> NoTask, type |-> ty, priority |-> p,
      description |-> GoodDescription, context |-> c] :
        ty \in SubmitTypes, p \in SubmitPriorities,
        c \in {NoContext, [files |-> <<GoodFile>>]}}
    \cup {[id |-> NoTask, type |-> "CodeAnalysis", priority |-> "Medium",
           description |-> d, context |-> NoContext] : d \in BadDescriptions}
    \cup {[id |-> NoTask, type |-> "CodeAnalysis", priority |-> "Medium",
           description |-> GoodDescription, context |-> c] : c \in BadContexts}

(***************************************************************************)
(* TaskDecomposer (decomposer.rs).  Uuid::new_v4() is modelled by ids that *)
(* follow the parent's: the i-th sub-task of task k has id k + i.          *)
(***************************************************************************)
SubTaskPlan(type, priority) ==
    CASE type = "CodeGeneration" ->
            <<[task_type |-> "CodeAnalysis", priority |-> priority,
               assigned_agent_type |-> "CodeAnalyzer"],
              [task_type |-> "CodeGeneration", priority |-> priority,
               assigned_agent_type |-> "CodeGenerator"],
              [task_type |-> "CodeAnalysis", priority |-> "High",
               assigned_agent_type |-> "Reviewer"]>>
      [] type = "Refactoring" ->
            <<[task_type |-> "CodeAnalysis", priority |-> priority,
               assigned_agent_type |-> "CodeAnalyzer"],
              [task_type |-> "Refactoring", priority |-> priority,
               assigned_agent_type |-> "Refactorer"],
              [task_type |-> "Testing", priority |-> "High",
               assigned_agent_type |-> "Tester"]>>
      [] type = "Debugging" ->
            <<[task_type |-> "CodeAnalysis", priority |-> "Urgent",
               assigned_agent_type |-> "Debugger"],
              [task_type |-> "Debugging", priority |-> "Urgent",
               assigned_agent_type |-> "Debugger"],
              [task_type |-> "Testing", priority |-> "High",
               assigned_agent_type |-> "Tester"]>>
      [] type = "Testing" ->
            <<[task_type |-> "CodeAnalysis", priority |-> priority,
               assigned_agent_type |-> "CodeAnalyzer"],
              [task_type |-> "Testing", priority |-> priority,
               assigned_agent_type |-> "Tester"]>>
      [] type = "Documentation" ->
            <<[task_type |-> "CodeAnalysis", priority |-> priority,
               assigned_agent_type |-> "CodeAnalyzer"],
              [task_type |-> "Documentation", priority |-> priority,
               assigned_agent_type |-> "Documenter"]>>
      [] type = "CodeAnalysis" ->
            <<[task_type |-> "CodeAnalysis", priority |-> priority,
               assigned_agent_type |-> "CodeAnalyzer"]>>

SubTasks_ParentIsBase(task, base) ==
    LET plan == SubTaskPlan(task.type, task.priority) IN
    [i \in 1..Len(plan) |->
        [id |-> base + i, parent_id |-> base,
         task_type |-> plan[i].task_type, priority |-> plan[i].priority,
         assigned_agent_type |-> plan[i].assigned_agent_type]]

\* the sub-tasks of a task; base + i is the id drawn for the i-th of them
SubTasks(task, base) ==
    LET plan == SubTaskPlan(task.type, task.priority) IN
    [i \in 1..Len(plan) |->
        [id |-> base + i, parent_id |-> task.id,
         task_type |-> plan[i].task_type, priority |-> plan[i].priority,
         assigned_agent_type |-> plan[i].assigned_agent_type]]

build_dependencies_PredecessorOnly(subtasks) ==
    [i \in 1..(Len(subtasks) - 1) |->
        [task_id |-> subtasks[i + 1].id,
         depends_on |-> <<subtasks[i].id>>,
         dependency_type |-> "Sequential"]]

build_dependencies(subtasks) ==
    [i \in 1..(Len(subtasks) - 1) |->
        [task_id |-> subtasks[i + 1].id,
         depends_on |-> [j \in 1..i |-> subtasks[j].id],
         dependency_type |-> "Sequential"]]

decompose(task, base) ==
    LET subtasks == SubTasks(task, base) IN
    [original_task |-> task, subtasks |-> subtasks,
     dependencies |-> build_dependencies(subtasks)]

(***************************************************************************)
(* MetricsCollector (monitoring.rs).                                       *)
(***************************************************************************)
record_agent_created(m) ==
    [m EXCEPT !.total_agents_created = @ + 1, !.active_agents = @ + 1]

record_task_started(m) ==
    [m EXCEPT !.total_tasks_executed = @ + 1, !.active_tasks = @ + 1]

record_task_completed(m, success) ==
    [m EXCEPT !.successful_tasks = IF success THEN @ + 1 ELSE @,
              !.failed_tasks = IF success THEN @ ELSE @ + 1,
              !.active_tasks = IF @ > 0 THEN @ - 1 ELSE @]

(***************************************************************************)
(* AgentManager::create_task, one step for each stretch of the call that   *)
(* runs under one lock.  TaskQueue::enqueue takes the write lock of        *)
(* current_size and then, holding it, the write lock of queue.             *)
(***************************************************************************)
AgentTask(id, type, priority, t) ==
    [id |-> id, type |-> type, priority |-> priority, created_at |-> t]

\* an entry of the task table: the fields of the stored AgentTask that the
\* manager reads or writes after the task is stored
TableEntry(type, priority, status) ==
    [type |-> type, priority |-> priority, status |-> status]

\* what create_task does when enqueue() of a sub-task fails: it logs the
\* error and goes on with the next sub-task
on_enqueue_error_Propagate == "return"

on_enqueue_error == "continue"

Return(c, result) == [IdleCaller EXCEPT !.result = result]

\* observer: has the call changed the task table, the queue or the metrics?
Touch(c) ==
    obs' = [obs EXCEPT !.touched[c] =
               @ \/ tasks' # tasks \/ task_queue' # task_queue
                 \/ metrics' # metrics]

\* create_task is handed a task: one with a fresh id, as the route builds it
\* (agents.rs:75), or one that carries the id of a task in the table
CT_Call(c, requests, max_calls) ==
    /\ callers[c].pc = "idle"
    /\ uuid < max_calls
    /\ uuid' = uuid + 1
    /\ \E req \in requests :
         /\ req.id = NoTask \/ req.id \in DOMAIN tasks
         /\ LET e1 == validate_task_description(req.description,
                                                security_config)
                e2 == validate_context(req.context, security_config)
            IN callers' = [callers EXCEPT ![c] =
                 IF e1 # "Ok" THEN Return(c, e1)
                 ELSE IF e2 # "Ok" THEN Return(c, e2)
                 ELSE [IdleCaller EXCEPT !.pc = "count",
                                         !.base = IdStride * (uuid + 1),
                                         !.task = IF req.id = NoTask
                                                  THEN IdStride * (uuid + 1)
                                                  ELSE req.id,
                                         !.type = req.type,
                                         !.priority = req.priority]]
    /\ obs' = [obs EXCEPT !.touched[c] = FALSE]
    /\ UNCHANGED <<now, task_queue, backpressure, circuit_breaker, tasks,
                   agents, health_monitor, metrics, security_config,
                   checkpoint_manager, retry, locks, loop, execs, pending,
                   ret>>

CT_TaskCount(c) ==
    /\ callers[c].pc = "count"
    /\ LET e == validate_task_count(Cardinality(DOMAIN tasks), security_config)
       IN  callers' = [callers EXCEPT ![c] =
               IF e # "Ok" THEN Return(c, e) ELSE [@ EXCEPT !.pc = "is_full"]]
    /\ UNCHANGED <<now, task_queue, backpressure, circuit_breaker, tasks,
                   agents, health_monitor, metrics, security_config,
                   checkpoint_manager, retry, locks, uuid, loop, execs,
                   pending, ret>>
    /\ Touch(c)

CT_IsFull(c) ==
    /\ callers[c].pc = "is_full"
    /\ locks.size = None
    /\ callers' = [callers EXCEPT ![c] =
           IF QueueIsFull(task_queue) THEN Return(c, "QueueFull")
           ELSE [@ EXCEPT !.pc = "started"]]
    /\ UNCHANGED <<now, task_queue, backpressure, circuit_breaker, tasks,
                   agents, health_monitor, metrics, security_config,
                   checkpoint_manager, retry, locks, uuid, loop, execs,
                   pending, ret>>
    /\ Touch(c)

CT_RecordStarted(c) ==
    /\ callers[c].pc = "started"
    /\ metrics' = record_task_started(metrics)
    /\ callers' = [callers EXCEPT ![c].pc = "store", ![c].created_at = now]
    /\ UNCHANGED <<now, task_queue, backpressure, circuit_breaker, tasks,
                   agents, health_monitor, security_config, checkpoint_manager,
                   retry, locks, uuid, loop, execs, pending, ret>>
    /\ Touch(c)

CT_Store(c) ==
    /\ callers[c].pc = "store"
    /\ LET me == callers[c]
           task == AgentTask(me.task, me.type, me.priority, me.created_at)
       IN  /\ tasks' = Insert(tasks, me.task,
                   TableEntry(me.type, me.priority, "Pending"))
           /\ callers' = [callers EXCEPT ![c].pc = "sub_store",
                                         ![c].subs = decompose(task, me.base).subtasks]
    /\ UNCHANGED <<now, task_queue, backpressure, circuit_breaker, agents,
                   health_monitor, metrics, security_config,
                   checkpoint_manager, retry, locks, uuid, loop, execs,
                   pending, ret>>
    /\ Touch(c)

CT_StoreSubtask(c) ==
    /\ callers[c].pc = "sub_store"
    /\ LET sub == Head(callers[c].subs) IN
         /\ tasks' = Insert(tasks, sub.id,
                 TableEntry(sub.task_type, sub.priority, "Pending"))
         /\ callers' = [callers EXCEPT
                 ![c].pc = "enq_size",
                 ![c].item = AgentTask(sub.id, sub.task_type, sub.priority, now)]
    /\ UNCHANGED <<now, task_queue, backpressure, circuit_breaker, agents,
                   health_monitor, metrics, security_config,
                   checkpoint_manager, retry, locks, uuid, loop, execs,
                   pending, ret>>
    /\ Touch(c)

\* the for loop of create_task goes on to the next sub-task, or the call returns
NextSubtask(me) ==
    IF Len(me.subs) > 1
    THEN [me EXCEPT !.pc = "sub_store", !.subs = Tail(@), !.item = None]
    ELSE [IdleCaller EXCEPT !.result = "Ok"]

\* TaskQueue::enqueue as called by p, a create_task call or the queue
\* processor (re-queueing): the caller's next step once enqueue has returned
AfterEnqueue(p, ok) ==
    IF p = "loop" THEN IdleLoop
    ELSE IF ok \/ on_enqueue_error = "continue" THEN NextSubtask(callers[p])
    ELSE Return(p, "QueueFull")

Proc(p) == IF p = "loop" THEN loop ELSE callers[p]

SetProc(p, st) ==
    IF p = "loop"
    THEN loop' = st /\ UNCHANGED callers
    ELSE callers' = [callers EXCEPT ![p] = st] /\ UNCHANGED loop

\* enqueue, first half: current_size.write(), the capacity check, the score
EnqueueLockSize(p) ==
    /\ Proc(p).pc = "enq_size"
    /\ locks.size = None
    /\ IF QueueIsFull(task_queue)
       THEN /\ SetProc(p, AfterEnqueue(p, FALSE))
            /\ UNCHANGED locks
       ELSE /\ locks' = [locks EXCEPT !.size = p]
            /\ SetProc(p, [Proc(p) EXCEPT !.pc = "enq_queue",
                                          !.item = QueuedTask(@, now)])
    /\ UNCHANGED <<now, task_queue, backpressure, circuit_breaker, tasks,
                   agents, health_monitor, metrics, security_config,
                   checkpoint_manager, retry, uuid, execs, pending, ret>>
    /\ IF p \in Callers THEN Touch(p) ELSE UNCHANGED obs

\* enqueue, second half: queue.write(), the push, the size; both locks dropped
EnqueuePush(p) ==
    /\ Proc(p).pc = "enq_queue"
    /\ locks.queue = None
    /\ task_queue' = QueuePush(task_queue, Proc(p).item)
    /\ locks' = [locks EXCEPT !.size = None]
    /\ SetProc(p, AfterEnqueue(p, TRUE))
    /\ UNCHANGED <<now, backpressure, circuit_breaker, tasks, agents,
                   health_monitor, metrics, security_config,
                   checkpoint_manager, retry, uuid, execs, pending, ret>>
    /\ obs' = [obs EXCEPT
           !.enqueued = @ \cup {Proc(p).item.task.id},
           !.touched = IF p \in Callers THEN [@ EXCEPT ![p] = TRUE] ELSE @]

(***************************************************************************)
(* AgentManager::queue_processor, the loop the manager spawns when it is   *)
(* built.  TaskQueue::dequeue takes the write lock of queue and then,      *)
(* holding it, the write lock of current_size.                             *)
(***************************************************************************)
NewExecution(task) ==
    [pc |-> "find", type |-> task.type, candidates |-> {}, agent |-> NoTask,
     outcome |-> None, start_time |-> NoTime]

Remove(map, key) == [k \in DOMAIN map \ {key} |-> map[k]]

QP_CanAccept ==
    /\ loop.pc = "can_accept"
    /\ loop' = IF can_accept(backpressure) THEN [loop EXCEPT !.pc = "is_open"]
               ELSE loop
    /\ UNCHANGED <<now, task_queue, backpressure, circuit_breaker, tasks,
                   agents, health_monitor, metrics, security_config,
                   checkpoint_manager, retry, locks, uuid, callers, execs,
                   pending, ret, obs>>

QP_IsOpen ==
    /\ loop.pc = "is_open"
    /\ loop' = [loop EXCEPT !.pc = IF is_open(circuit_breaker)
                                   THEN "try_half_open" ELSE "dequeue"]
    /\ UNCHANGED <<now, task_queue, backpressure, circuit_breaker, tasks,
                   agents, health_monitor, metrics, security_config,
                   checkpoint_manager, retry, locks, uuid, callers, execs,
                   pending, ret, obs>>

QP_TryHalfOpen ==
    /\ loop.pc = "try_half_open"
    /\ circuit_breaker' = try_half_open(circuit_breaker, now).cb
    /\ loop' = IdleLoop
    /\ UNCHANGED <<now, task_queue, backpressure, tasks, agents,
                   health_monitor, metrics, security_config,
                   checkpoint_manager, retry, locks, uuid, callers, execs,
                   pending, ret, obs>>

QP_DequeueLockQueue ==
    /\ loop.pc = "dequeue"
    /\ locks.queue = None
    /\ locks' = [locks EXCEPT !.queue = "loop"]
    /\ loop' = [loop EXCEPT !.pc = "dequeue_size"]
    /\ UNCHANGED <<now, task_queue, backpressure, circuit_breaker, tasks,
                   agents, health_monitor, metrics, security_config,
                   checkpoint_manager, retry, uuid, callers, execs, pending,
                   ret, obs>>

QP_DequeuePop ==
    /\ loop.pc = "dequeue_size"
    /\ locks.size = None
    /\ locks' = [locks EXCEPT !.queue = None]
    /\ IF task_queue.queue = {}
       THEN loop' = IdleLoop /\ UNCHANGED task_queue
       ELSE \E qt \in HeapPop(task_queue.queue) :
               /\ task_queue' = QueueRemove(task_queue, qt)
               /\ loop' = [loop EXCEPT !.pc = "reserve", !.item = qt.task]
    /\ UNCHANGED <<now, backpressure, circuit_breaker, tasks, agents,
                   health_monitor, metrics, security_config,
                   checkpoint_manager, retry, uuid, callers, execs, pending,
                   ret, obs>>

\* reserve(); on Ok the execution is spawned, on Err the task is re-queued
QP_Reserve ==
    /\ loop.pc = "reserve"
    /\ LET r == reserve(backpressure) IN
         IF r.ok
         THEN /\ backpressure' = r.bp
              /\ execs' = Insert(execs, loop.item.id, NewExecution(loop.item))
              /\ loop' = IdleLoop
         ELSE /\ loop' = [loop EXCEPT !.pc = "enq_size"]
              /\ UNCHANGED <<backpressure, execs>>
    /\ UNCHANGED <<now, task_queue, circuit_breaker, tasks, agents,
                   health_monitor, metrics, security_config,
                   checkpoint_manager, retry, locks, uuid, callers, pending,
                   ret, obs>>

queue_processor ==
    \/ QP_CanAccept \/ QP_IsOpen \/ QP_TryHalfOpen \/ QP_DequeueLockQueue
    \/ QP_DequeuePop \/ QP_Reserve

(***************************************************************************)
(* The task the queue processor spawns for a dispatched item               *)
(* (manager.rs:147-224), one step for each lock it takes.  The agent       *)
(* created for a task is given the task's id (Uuid::new_v4() in the code). *)
(***************************************************************************)
AgentTypeFor(task_type) ==
    CASE task_type = "CodeGeneration" -> "CodeGenerator"
      [] task_type = "CodeAnalysis" -> "CodeAnalyzer"
      [] task_type = "Refactoring" -> "Refactorer"
      [] task_type = "Debugging" -> "Debugger"
      [] task_type = "Documentation" -> "Documenter"
      [] task_type = "Testing" -> "Tester"

can_handle_task(agent, task_type) == agent.agent_type = AgentTypeFor(task_type)

NewAgent(agent_type) ==
    [agent_type |-> agent_type, status |-> "Idle", current_task |-> NoTask]

\* AgentHealth without last_success and last_failure, which are only written
NewAgentHealth ==
    [is_healthy |-> TRUE, consecutive_failures |-> 0,
     total_executions |-> 0, successful_executions |-> 0]

record_execution_OffByOne(hm, agent_id, success) ==
    LET h == IF agent_id \in DOMAIN hm.agent_health
             THEN hm.agent_health[agent_id] ELSE NewAgentHealth
        h2 == IF success
              THEN [h EXCEPT !.total_executions = @ + 1,
                             !.consecutive_failures = 0,
                             !.successful_executions = @ + 1,
                             !.is_healthy = TRUE]
              ELSE [h EXCEPT !.total_executions = @ + 1,
                             !.consecutive_failures = @ + 1,
                             !.is_healthy =
                                 IF h.consecutive_failures + 1
                                        > hm.unhealthy_threshold
                                 THEN FALSE ELSE @]
    IN  [hm EXCEPT !.agent_health = Insert(@, agent_id, h2)]

record_execution_NoRecovery(hm, agent_id, success) ==
    LET h == IF agent_id \in DOMAIN hm.agent_health
             THEN hm.agent_health[agent_id] ELSE NewAgentHealth
        h2 == IF success
              THEN [h EXCEPT !.total_executions = @ + 1,
                             !.consecutive_failures = 0,
                             !.successful_executions = @ + 1]
              ELSE [h EXCEPT !.total_executions = @ + 1,
                             !.consecutive_failures = @ + 1,
                             !.is_healthy =
                                 IF h.consecutive_failures + 1
                                        >= hm.unhealthy_threshold
                                 THEN FALSE ELSE @]
    IN  [hm EXCEPT !.agent_health = Insert(@, agent_id, h2)]

record_execution(hm, agent_id, success) ==
    LET h == IF agent_id \in DOMAIN hm.agent_health
             THEN hm.agent_health[agent_id] ELSE NewAgentHealth
        h2 == IF success
              THEN [h EXCEPT !.total_executions = @ + 1,
                             !.consecutive_failures = 0,
                             !.successful_executions = @ + 1,
                             !.is_healthy = TRUE]
              ELSE [h EXCEPT !.total_executions = @ + 1,
                             !.consecutive_failures = @ + 1,
                             !.is_healthy =
                                 IF h.consecutive_failures + 1
                                        >= hm.unhealthy_threshold
                                 THEN FALSE ELSE @]
    IN  [hm EXCEPT !.agent_health = Insert(@, agent_id, h2)]

is_healthy_UnseenUnhealthy(hm, agent_id) ==
    IF agent_id \in DOMAIN hm.agent_health
    THEN hm.agent_health[agent_id].is_healthy ELSE FALSE

is_healthy(hm, agent_id) ==
    IF agent_id \in DOMAIN hm.agent_health
    THEN hm.agent_health[agent_id].is_healthy ELSE TRUE

get_unhealthy_agents(hm) ==
    {a \in DOMAIN hm.agent_health : ~hm.agent_health[a].is_healthy}

TimeoutSecs(task_type) ==
    CASE task_type = "CodeGeneration" -> 300
      [] task_type = "Refactoring" -> 600
      [] task_type = "Debugging" -> 300
      [] task_type = "Testing" -> 180
      [] task_type = "Documentation" -> 120
      [] task_type = "CodeAnalysis" -> 180

get_timeout_for_task(task_type) == TimeoutSecs(task_type) * TicksPerSec

ExecStep(t, pc) == t \in DOMAIN execs /\ execs[t].pc = pc

\* find_or_create_agent_for_task: the idle agents that can handle the task
EX_FindCandidates(t) ==
    /\ ExecStep(t, "find")
    /\ execs' = [execs EXCEPT
           ![t].pc = "health",
           ![t].candidates =
               {a \in DOMAIN agents : /\ agents[a].status = "Idle"
                                      /\ can_handle_task(agents[a], execs[t].type)}]
    /\ UNCHANGED <<now, task_queue, backpressure, circuit_breaker, tasks,
                   agents, health_monitor, metrics, security_config,
                   checkpoint_manager, retry, locks, uuid, callers, loop,
                   pending, ret, obs>>

\* the loop over the candidates, in the order the HashMap yields them
EX_CheckHealth(t) ==
    /\ ExecStep(t, "health")
    /\ IF execs[t].candidates = {}
       THEN execs' = [execs EXCEPT ![t].pc = "create_check"]
       ELSE \E a \in execs[t].candidates :
               execs' = [execs EXCEPT ![t] =
                   IF is_healthy(health_monitor, a)
                   THEN [@ EXCEPT !.pc = "execute", !.agent = a,
                                  !.candidates = {}, !.start_time = now]
                   ELSE [@ EXCEPT !.candidates = @ \ {a}]]
    /\ UNCHANGED <<now, task_queue, backpressure, circuit_breaker, tasks,
                   agents, health_monitor, metrics, security_config,
                   checkpoint_manager, retry, locks, uuid, callers, loop,
                   pending, ret, obs>>

\* create_agent: the count is checked under a read lock that is then dropped
EX_CreateAgentCheck(t) ==
    /\ ExecStep(t, "create_check")
    /\ execs' = [execs EXCEPT ![t].pc =
           IF validate_agent_count(Cardinality(DOMAIN agents), security_config)
                  # "Ok"
           THEN "release" ELSE "create_metrics"]
    /\ UNCHANGED <<now, task_queue, backpressure, circuit_breaker, tasks,
                   agents, health_monitor, metrics, security_config,
                   checkpoint_manager, retry, locks, uuid, callers, loop,
                   pending, ret, obs>>

EX_CreateAgentMetrics(t) ==
    /\ ExecStep(t, "create_metrics")
    /\ metrics' = record_agent_created(metrics)
    /\ execs' = [execs EXCEPT ![t].pc = "create_insert"]
    /\ UNCHANGED <<now, task_queue, backpressure, circuit_breaker, tasks,
                   agents, health_monitor, security_config, checkpoint_manager,
                   retry, locks, uuid, callers, loop, pending, ret, obs>>

EX_CreateAgentInsert(t) ==
    /\ ExecStep(t, "create_insert")
    /\ agents' = Insert(agents, t, NewAgent(AgentTypeFor(execs[t].type)))
    /\ execs' = [execs EXCEPT ![t].pc = "execute", ![t].agent = t,
                              ![t].start_time = now]
    /\ UNCHANGED <<now, task_queue, backpressure, circuit_breaker, tasks,
                   health_monitor, metrics, security_config,
                   checkpoint_manager, retry, locks, uuid, callers, loop,
                   pending, ret, obs>>

\* executor.execute_task(..).await returns when the backend answers; nothing
\* in the spawned task bounds the wait
EX_Execute(t, outcomes) ==
    /\ ExecStep(t, "execute")
    /\ \E o \in outcomes :
         execs' = [execs EXCEPT ![t].pc = "update_task", ![t].outcome = o]
    /\ UNCHANGED <<now, task_queue, backpressure, circuit_breaker, tasks,
                   agents, health_monitor, metrics, security_config,
                   checkpoint_manager, retry, locks, uuid, callers, loop,
                   pending, ret, obs>>

\* the parent's entry is the one under the id the call drew for the task
ParentIdOf(t) == IdStride * (t \div IdStride)

EX_UpdateTask_RollUp(t) ==
    /\ ExecStep(t, "update_task")
    /\ LET st == IF execs[t].outcome = "Ok" THEN "Completed" ELSE "Failed" IN
         tasks' = [k \in DOMAIN tasks |->
                      IF k \in {t, ParentIdOf(t)}
                      THEN [tasks[k] EXCEPT !.status = st] ELSE tasks[k]]
    /\ execs' = [execs EXCEPT ![t].pc = "update_agent"]
    /\ UNCHANGED <<now, task_queue, backpressure, circuit_breaker, agents,
                   health_monitor, metrics, security_config,
                   checkpoint_manager, retry, locks, uuid, callers, loop,
                   pending, ret, obs>>

EX_UpdateTask(t) ==
    /\ ExecStep(t, "update_task")
    /\ tasks' = IF t \in DOMAIN tasks
                THEN [tasks EXCEPT ![t].status =
                         IF execs[t].outcome = "Ok" THEN "Completed"
                         ELSE "Failed"]
                ELSE tasks
    /\ execs' = [execs EXCEPT ![t].pc = "update_agent"]
    /\ UNCHANGED <<now, task_queue, backpressure, circuit_breaker, agents,
                   health_monitor, metrics, security_config,
                   checkpoint_manager, retry, locks, uuid, callers, loop,
                   pending, ret, obs>>

EX_UpdateAgent_AlwaysIdle(t) ==
    /\ ExecStep(t, "update_agent")
    /\ agents' = IF execs[t].agent \in DOMAIN agents
                 THEN [agents EXCEPT ![execs[t].agent].status = "Idle",
                                     ![execs[t].agent].current_task = NoTask]
                 ELSE agents
    /\ execs' = [execs EXCEPT ![t].pc = "record_health"]
    /\ UNCHANGED <<now, task_queue, backpressure, circuit_breaker, tasks,
                   health_monitor, metrics, security_config,
                   checkpoint_manager, retry, locks, uuid, callers, loop,
                   pending, ret, obs>>

EX_UpdateAgent(t) ==
    /\ ExecStep(t, "update_agent")
    /\ agents' = IF execs[t].agent \in DOMAIN agents
                 THEN [agents EXCEPT ![execs[t].agent].status =
                          IF execs[t].outcome = "Ok" THEN "Idle" ELSE "Failed",
                                     ![execs[t].agent].current_task = NoTask]
                 ELSE agents
    /\ execs' = [execs EXCEPT ![t].pc = "record_health"]
    /\ UNCHANGED <<now, task_queue, backpressure, circuit_breaker, tasks,
                   health_monitor, metrics, security_config,
                   checkpoint_manager, retry, locks, uuid, callers, loop,
                   pending, ret, obs>>

EX_RecordHealth(t) ==
    /\ ExecStep(t, "record_health")
    /\ health_monitor' = record_execution(health_monitor, execs[t].agent,
                                          execs[t].outcome = "Ok")
    /\ execs' = [execs EXCEPT ![t].pc = "record_breaker"]
    /\ UNCHANGED <<now, task_queue, backpressure, circuit_breaker, tasks,
                   agents, metrics, security_config, checkpoint_manager, retry,
                   locks, uuid, callers, loop, pending, ret, obs>>

EX_RecordBreaker(t) ==
    /\ ExecStep(t, "record_breaker")
    /\ circuit_breaker' = IF execs[t].outcome = "Ok"
                          THEN record_success(circuit_breaker)
                          ELSE record_failure(circuit_breaker, now)
    /\ execs' = [execs EXCEPT ![t].pc = "record_metrics"]
    /\ UNCHANGED <<now, task_queue, backpressure, tasks, agents,
                   health_monitor, metrics, security_config,
                   checkpoint_manager, retry, locks, uuid, callers, loop,
                   pending, ret, obs>>

EX_RecordMetrics(t) ==
    /\ ExecStep(t, "record_metrics")
    /\ metrics' = record_task_completed(metrics, execs[t].outcome = "Ok")
    /\ execs' = [execs EXCEPT ![t].pc = "release"]
    /\ UNCHANGED <<now, task_queue, backpressure, circuit_breaker, tasks,
                   agents, health_monitor, security_config, checkpoint_manager,
                   retry, locks, uuid, callers, loop, pending, ret, obs>>

\* backpressure.release(), after which the spawned task ends
EX_Release(t) ==
    /\ ExecStep(t, "release")
    /\ backpressure' = release(backpressure)
    /\ execs' = Remove(execs, t)
    /\ UNCHANGED <<now, task_queue, circuit_breaker, tasks, agents,
                   health_monitor, metrics, security_config,
                   checkpoint_manager, retry, locks, uuid, callers, loop,
                   pending, ret, obs>>

(***************************************************************************)
(* The manager: AgentManager::new, callers of create_task, the queue       *)
(* processor, the executions it has spawned, and the clock.                *)
(***************************************************************************)
OrchInstants == {0, LateMinutes * TicksPerMinute}

BackendOutcomes == {"Ok", "Err"}

\* the callers of create_task that are active
Clients == {"c1"}

ManagerInit(queue_capacity, config) ==
    /\ now = 0
    /\ task_queue = NewTaskQueue(queue_capacity)
    /\ backpressure = NewBackpressure(ConcurrentLimit)
    /\ circuit_breaker = NewCircuitBreaker(FailureThreshold,
                                           BreakerTimeoutSecs * TicksPerSec)
    /\ tasks = <<>>
    /\ agents = <<>>
    /\ health_monitor = NewHealthMonitor(UnhealthyThreshold)
    /\ metrics = NewMetrics
    /\ security_config = config
    /\ checkpoint_manager = NewCheckpointManager
    /\ retry = NoRetry
    /\ locks = [queue |-> None, size |-> None]
    /\ uuid = 0
    /\ callers = [c \in Callers |-> IdleCaller]
    /\ loop = IdleLoop
    /\ execs = <<>>
    /\ pending = NoPending
    /\ ret = [op |-> "new", ok |-> TRUE, task |-> NoTask, calls |-> 0]
    /\ obs = NoObs

Tick ==
    /\ Advance(OrchInstants)
    /\ UNCHANGED <<task_queue, backpressure, circuit_breaker, orchVars,
                   pending, ret, obs>>

Init == ManagerInit(QueueCapacity, DefaultSecurityConfig)

Next ==
    \/ \E c \in Clients :
          \/ CT_Call(c, Requests, MaxCalls) \/ CT_TaskCount(c) \/ CT_IsFull(c)
          \/ CT_RecordStarted(c) \/ CT_Store(c) \/ CT_StoreSubtask(c)
    \/ \E p \in Clients \cup {"loop"} : EnqueueLockSize(p) \/ EnqueuePush(p)
    \/ queue_processor
    \/ \E t \in DOMAIN execs :
          \/ EX_FindCandidates(t) \/ EX_CheckHealth(t)
          \/ EX_CreateAgentCheck(t) \/ EX_CreateAgentMetrics(t)
          \/ EX_CreateAgentInsert(t) \/ EX_Execute(t, BackendOutcomes)
          \/ EX_UpdateTask(t) \/ EX_UpdateAgent(t) \/ EX_RecordHealth(t)
          \/ EX_RecordBreaker(t) \/ EX_RecordMetrics(t) \/ EX_Release(t)
    \/ Tick

Spec == Init /\ [][Next]_vars

(***************************************************************************)
(* End to end: the manager with limits that one task does not reach, one   *)
(* create_task call for a CodeGeneration task of High priority, a backend  *)
(* that always answers with success, and a scheduler that is fair to the   *)
(* caller, to the queue processor and to every spawned execution.          *)
(***************************************************************************)
E2ERequests ==
    {[id |-> NoTask, type |-> "CodeGeneration", priority |-> "High",
      description |-> GoodDescription, context |-> NoContext]}

E2EConfig ==
    [DefaultSecurityConfig EXCEPT !.max_agents_per_user = RoomyLimit,
                                  !.max_tasks_per_user = RoomyLimit + 1]

E2EInit == ManagerInit(RoomyLimit, E2EConfig)

E2ECaller(c) ==
    \/ CT_Call(c, E2ERequests, 1) \/ CT_TaskCount(c) \/ CT_IsFull(c)
    \/ CT_RecordStarted(c) \/ CT_Store(c) \/ CT_StoreSubtask(c)
    \/ EnqueueLockSize(c) \/ EnqueuePush(c)

\* the breaker stays Closed and reserve() succeeds in these runs, so the queue
\* processor never reaches try_half_open or the re-queueing
E2ELoop ==
    \/ QP_CanAccept \/ QP_IsOpen \/ QP_DequeueLockQueue \/ QP_DequeuePop
    \/ QP_Reserve

E2EExecution(t) ==
    \/ EX_FindCandidates(t) \/ EX_CheckHealth(t)
    \/ EX_CreateAgentCheck(t) \/ EX_CreateAgentMetrics(t)
    \/ EX_CreateAgentInsert(t) \/ EX_Execute(t, {"Ok"})
    \/ EX_UpdateTask(t) \/ EX_UpdateAgent(t) \/ EX_RecordHealth(t)
    \/ EX_RecordBreaker(t) \/ EX_RecordMetrics(t) \/ EX_Release(t)

E2ETaskIds == {IdStride + i : i \in 0..3}

E2ENext ==
    \/ \E c \in Clients : E2ECaller(c)
    \/ E2ELoop
    \/ \E t \in DOMAIN execs : E2EExecution(t)
    \/ Tick

E2EFairness ==
    /\ \A c \in Clients : WF_vars(E2ECaller(c))
    /\ WF_vars(E2ELoop)
    /\ \A t \in E2ETaskIds : WF_vars(t \in DOMAIN execs /\ E2EExecution(t))

SpecE2E == E2EInit /\ [][E2ENext]_vars /\ E2EFairness

(***************************************************************************)
(* The queue alone: sequential calls of enqueue, dequeue and clear.        *)
(***************************************************************************)
\* A task handed to enqueue: created now or earlier.
QueueInstants == Instants(MaxMinutes, 1)

QueueInputs(id) ==
    {[id |-> id, type |-> "CodeAnalysis", priority |-> p, created_at |-> c] :
        p \in Priorities, c \in {0, now}}

QEnqueue ==
    /\ ret.calls < MaxEnq
    /\ \E task \in QueueInputs(ret.calls + 1) :
         IF QueueIsFull(task_queue)
         THEN /\ ret' = [op |-> "enqueue", ok |-> FALSE, task |-> task.id,
                         calls |-> ret.calls + 1]
              /\ UNCHANGED task_queue
         ELSE /\ task_queue' = QueuePush(task_queue, QueuedTask(task, now))
              /\ ret' = [op |-> "enqueue", ok |-> TRUE, task |-> task.id,
                         calls |-> ret.calls + 1]
    /\ UNCHANGED <<now, backpressure, circuit_breaker, obs, restVars>>

QDequeue ==
    /\ IF task_queue.queue = {}
       THEN /\ ret' = [op |-> "dequeue", ok |-> FALSE, task |-> NoTask,
                       calls |-> ret.calls]
            /\ UNCHANGED task_queue
       ELSE \E item \in HeapPop(task_queue.queue) :
            /\ task_queue' = QueueRemove(task_queue, item)
            /\ ret' = [op |-> "dequeue", ok |-> TRUE, task |-> item.task.id,
                       calls |-> ret.calls]
    /\ UNCHANGED <<now, backpressure, circuit_breaker, obs, restVars>>

QClear ==
    /\ task_queue' = QueueClear(task_queue)
    /\ ret' = [op |-> "clear", ok |-> TRUE, task |-> NoTask, calls |-> ret.calls]
    /\ UNCHANGED <<now, backpressure, circuit_breaker, obs, restVars>>

QueueInit ==
    /\ now = 0
    /\ \E n \in 1..MaxQueueSize : task_queue = NewTaskQueue(n)
    /\ backpressure = NewBackpressure(1)
    /\ circuit_breaker = NewCircuitBreaker(1, TicksPerSec)
    /\ ret = [op |-> "new", ok |-> TRUE, task |-> NoTask, calls |-> 0]
    /\ obs = NoObs
    /\ pending = NoPending
    /\ OrchIdle

QTick ==
    /\ Advance(QueueInstants)
    /\ UNCHANGED <<task_queue, backpressure, circuit_breaker, ret, obs,
                   restVars>>

QueueNext == QEnqueue \/ QDequeue \/ QClear \/ QTick

SpecQueue == QueueInit /\ [][QueueNext]_vars

(***************************************************************************)
(* The backpressure manager alone: threads call reserve() and release()    *)
(* concurrently; a call is pending from its invocation until it has the    *)
(* write lock, and then runs to its end.                                   *)
(***************************************************************************)
BPCall(th) ==
    /\ pending[th].result # None \/ pending[th].op = None
    /\ \E op \in {"reserve", "release"} :
         pending' = [pending EXCEPT ![th] = [op |-> op, result |-> None]]
    /\ UNCHANGED <<now, task_queue, backpressure, circuit_breaker, ret, obs,
                   orchVars>>

BPReserve(th) ==
    /\ pending[th].op = "reserve" /\ pending[th].result = None
    /\ LET r == reserve(backpressure) IN
         /\ backpressure' = r.bp
         /\ pending' = [pending EXCEPT
                           ![th].result = IF r.ok THEN "Ok" ELSE "Err"]
    /\ UNCHANGED <<now, task_queue, circuit_breaker, ret, obs, orchVars>>

BPRelease(th) ==
    /\ pending[th].op = "release" /\ pending[th].result = None
    /\ backpressure' = release(backpressure)
    /\ pending' = [pending EXCEPT ![th].result = "Ok"]
    /\ UNCHANGED <<now, task_queue, circuit_breaker, ret, obs, orchVars>>

BPInit ==
    /\ now = 0
    /\ task_queue = NewTaskQueue(1)
    /\ \E n \in 1..MaxConcurrent : backpressure = NewBackpressure(n)
    /\ circuit_breaker = NewCircuitBreaker(1, TicksPerSec)
    /\ ret = [op |-> "new", ok |-> TRUE, task |-> NoTask, calls |-> 0]
    /\ obs = NoObs
    /\ pending = NoPending
    /\ OrchIdle

BPNext == \E th \in Threads : BPCall(th) \/ BPReserve(th) \/ BPRelease(th)

SpecBackpressure == BPInit /\ [][BPNext]_vars

(***************************************************************************)
(* The circuit breaker alone: sequential calls while time passes.  The     *)
(* observer counts the record_failure() calls made in a row on a breaker   *)
(* that was Closed with failure_count 0, and the record_success() calls    *)
(* made in a row since try_half_open() returned true; -1 is "not in such   *)
(* a run".  It also keeps the state the breaker was in before the last     *)
(* call (before) and the state from which it last became HalfOpen          *)
(* (half_open_from).                                                       *)
(***************************************************************************)
CBInstants == Instants(0, MaxSubTicks)

\* timeouts of a whole second and of a second and a fraction
CBTimeouts == {TicksPerSec, TicksPerSec + 1}

FreshStreak(cb) == IF cb.state = "Closed" /\ cb.failure_count = 0 THEN 0 ELSE -1

CBRecordSuccess ==
    /\ circuit_breaker' = record_success(circuit_breaker)
    /\ obs' = [obs EXCEPT
                 !.fail_streak = FreshStreak(circuit_breaker'),
                 !.success_streak =
                     IF obs.success_streak \in 0..(SuccessThreshold - 1)
                     THEN obs.success_streak + 1 ELSE -1,
                 !.before = circuit_breaker.state]
    /\ ret' = [op |-> "record_success", ok |-> TRUE, task |-> NoTask,
               calls |-> ret.calls]
    /\ UNCHANGED <<now, task_queue, backpressure, restVars>>

CBRecordFailure ==
    /\ circuit_breaker.failure_count < MaxFailures
    /\ circuit_breaker' = record_failure(circuit_breaker, now)
    /\ obs' = [obs EXCEPT
                 !.fail_streak =
                     IF obs.fail_streak \in 0..(circuit_breaker.failure_threshold - 1)
                     THEN obs.fail_streak + 1 ELSE -1,
                 !.success_streak = -1,
                 !.before = circuit_breaker.state]
    /\ ret' = [op |-> "record_failure", ok |-> TRUE, task |-> NoTask,
               calls |-> ret.calls]
    /\ UNCHANGED <<now, task_queue, backpressure, restVars>>

CBTryHalfOpen ==
    /\ LET r == try_half_open(circuit_breaker, now) IN
         /\ circuit_breaker' = r.cb
         /\ obs' = IF r.ok
                   THEN [obs EXCEPT
                           !.fail_streak = -1, !.success_streak = 0,
                           !.before = circuit_breaker.state,
                           !.half_open_from =
                               IF circuit_breaker.state = "HalfOpen"
                               THEN @ ELSE circuit_breaker.state]
                   ELSE [obs EXCEPT !.before = circuit_breaker.state]
         /\ ret' = [op |-> "try_half_open", ok |-> r.ok, task |-> NoTask,
                    calls |-> ret.calls]
    /\ UNCHANGED <<now, task_queue, backpressure, restVars>>

CBTick ==
    /\ Advance(CBInstants)
    /\ UNCHANGED <<task_queue, backpressure, circuit_breaker, ret, obs,
                   restVars>>

CBInit ==
    /\ now = 0
    /\ task_queue = NewTaskQueue(1)
    /\ backpressure = NewBackpressure(1)
    /\ \E n \in 1..MaxThreshold, d \in CBTimeouts :
         circuit_breaker = NewCircuitBreaker(n, d)
    /\ ret = [op |-> "new", ok |-> TRUE, task |-> NoTask, calls |-> 0]
    /\ obs = [NoObs EXCEPT !.fail_streak = 0]
    /\ pending = NoPending
    /\ OrchIdle

CBNext == CBRecordSuccess \/ CBRecordFailure \/ CBTryHalfOpen \/ CBTick

SpecBreaker == CBInit /\ [][CBNext]_vars

(***************************************************************************)
(* AgentManager::create_agent called by concurrent requests               *)
(* (routes/agents.rs:50): the count is checked under a read lock, the lock *)
(* is dropped, the id is drawn and the metrics are recorded, and the agent *)
(* is inserted under a write lock taken afterwards.                        *)
(***************************************************************************)
CreatedAgentTypes == {"CodeGenerator", "CodeAnalyzer"}

\* observer: has the call changed the agent table or the agent metrics?
TouchAgents(c) ==
    obs' = [obs EXCEPT !.touched_agents[c] =
               @ \/ agents' # agents
                 \/ metrics'.total_agents_created # metrics.total_agents_created
                 \/ metrics'.active_agents # metrics.active_agents]

CA_Call(c) ==
    /\ callers[c].pc = "idle"
    /\ ret.calls < MaxAgentCalls
    /\ ret' = [ret EXCEPT !.op = "create_agent", !.calls = @ + 1]
    /\ \E ty \in CreatedAgentTypes :
         callers' = [callers EXCEPT ![c] =
             [IdleCaller EXCEPT !.pc = "ca_check", !.type = ty]]
    /\ obs' = [obs EXCEPT
           !.touched_agents[c] = FALSE,
           !.full_at_call[c] =
               Cardinality(DOMAIN agents) >= security_config.max_agents_per_user]
    /\ UNCHANGED <<now, task_queue, backpressure, circuit_breaker, tasks,
                   agents, health_monitor, metrics, security_config,
                   checkpoint_manager, retry, locks, uuid, loop, execs,
                   pending>>

CA_Check(c) ==
    /\ callers[c].pc = "ca_check"
    /\ LET e == validate_agent_count(Cardinality(DOMAIN agents), security_config)
       IN  callers' = [callers EXCEPT ![c] =
               IF e # "Ok" THEN Return(c, e) ELSE [@ EXCEPT !.pc = "ca_metrics"]]
    /\ UNCHANGED <<now, task_queue, backpressure, circuit_breaker, tasks,
                   agents, health_monitor, metrics, security_config,
                   checkpoint_manager, retry, locks, uuid, loop, execs,
                   pending, ret>>
    /\ TouchAgents(c)

CA_Metrics(c) ==
    /\ callers[c].pc = "ca_metrics"
    /\ uuid' = uuid + 1
    /\ metrics' = record_agent_created(metrics)
    /\ callers' = [callers EXCEPT ![c].pc = "ca_insert", ![c].task = uuid + 1]
    /\ UNCHANGED <<now, task_queue, backpressure, circuit_breaker, tasks,
                   agents, health_monitor, security_config, checkpoint_manager,
                   retry, locks, loop, execs, pending, ret>>
    /\ TouchAgents(c)

CA_Insert(c) ==
    /\ callers[c].pc = "ca_insert"
    /\ agents' = Insert(agents, callers[c].task, NewAgent(callers[c].type))
    /\ callers' = [callers EXCEPT ![c] = Return(c, "Ok")]
    /\ UNCHANGED <<now, task_queue, backpressure, circuit_breaker, tasks,
                   health_monitor, metrics, security_config,
                   checkpoint_manager, retry, locks, uuid, loop, execs,
                   pending, ret>>
    /\ TouchAgents(c)

AgentsInit == ManagerInit(QueueCapacity, DefaultSecurityConfig)

AgentsNext ==
    \E c \in Callers : CA_Call(c) \/ CA_Check(c) \/ CA_Metrics(c) \/ CA_Insert(c)

SpecAgents == AgentsInit /\ [][AgentsNext]_vars

(***************************************************************************)
(* The manager when create_task is also handed tasks that carry the id of  *)
(* a task already in the table (create_task keeps a non-empty id,          *)
(* manager.rs:358-360).                                                    *)
(***************************************************************************)
ResubmitRequests ==
    {[id |-> i, type |-> "CodeAnalysis", priority |-> "High",
      description |-> GoodDescription, context |-> NoContext] :
        i \in {NoTask, IdStride + 1}}

CallerStep(c) ==
    \/ CT_TaskCount(c) \/ CT_IsFull(c) \/ CT_RecordStarted(c)
    \/ CT_Store(c) \/ CT_StoreSubtask(c)

ExecutionStep(t) ==
    \/ EX_FindCandidates(t) \/ EX_CheckHealth(t)
    \/ EX_CreateAgentCheck(t) \/ EX_CreateAgentMetrics(t)
    \/ EX_CreateAgentInsert(t) \/ EX_Execute(t, BackendOutcomes)
    \/ EX_UpdateTask(t) \/ EX_UpdateAgent(t) \/ EX_RecordHealth(t)
    \/ EX_RecordBreaker(t) \/ EX_RecordMetrics(t) \/ EX_Release(t)

ResubmitNext ==
    \/ \E c \in Clients : CT_Call(c, ResubmitRequests, MaxCalls) \/ CallerStep(c)
    \/ \E p \in Clients \cup {"loop"} : EnqueueLockSize(p) \/ EnqueuePush(p)
    \/ queue_processor
    \/ \E t \in DOMAIN execs : ExecutionStep(t)
    \/ Tick

SpecResubmit == Init /\ [][ResubmitNext]_vars

(***************************************************************************)
(* The HealthMonitor alone: record_execution is called for three agents    *)
(* with any outcomes.  The observer keeps the outcomes recorded for each   *)
(* agent.                                                                  *)
(***************************************************************************)
HealthAgents == {1, 2, 3}

HistoryOf(a) == IF a \in DOMAIN obs.history THEN obs.history[a] ELSE <<>>

HMRecord(a, success) ==
    /\ ret.calls < MaxRecords
    /\ health_monitor' = record_execution(health_monitor, a, success)
    /\ ret' = [ret EXCEPT !.op = "record_execution", !.ok = success,
                          !.task = a, !.calls = @ + 1]
    /\ obs' = [obs EXCEPT !.history =
                  Insert(@, a, Append(HistoryOf(a), success))]
    /\ UNCHANGED <<now, task_queue, backpressure, circuit_breaker, tasks,
                   agents, metrics, security_config, checkpoint_manager, retry,
                   locks, uuid, callers, loop, execs, pending>>

HealthInit ==
    /\ now = 0
    /\ task_queue = NewTaskQueue(1)
    /\ backpressure = NewBackpressure(1)
    /\ circuit_breaker = NewCircuitBreaker(1, TicksPerSec)
    /\ \E n \in 1..MaxUnhealthy : health_monitor = NewHealthMonitor(n)
    /\ tasks = <<>>
    /\ agents = <<>>
    /\ metrics = NewMetrics
    /\ security_config = DefaultSecurityConfig
    /\ checkpoint_manager = NewCheckpointManager
    /\ retry = NoRetry
    /\ locks = [queue |-> None, size |-> None]
    /\ uuid = 0
    /\ callers = [c \in Callers |-> IdleCaller]
    /\ loop = IdleLoop
    /\ execs = <<>>
    /\ pending = NoPending
    /\ ret = [op |-> "new", ok |-> TRUE, task |-> NoTask, calls |-> 0]
    /\ obs = NoObs

HealthNext == \E a \in HealthAgents, success \in BOOLEAN : HMRecord(a, success)

SpecHealth == HealthInit /\ [][HealthNext]_vars

(***************************************************************************)
(* TaskDecomposer::decompose alone, applied to a task of any kind and      *)
(* priority.                                                               *)
(***************************************************************************)
DecomposeIds == {IdStride * k : k \in 1..(MaxCalls + 1)}

Decompose ==
    \E id \in DecomposeIds, base \in DecomposeIds,
       ty \in TaskTypes, p \in Priorities :
        LET task == AgentTask(id, ty, p, now) IN
        /\ ret' = [op |-> "decompose", ok |-> TRUE, task |-> task,
                   calls |-> 0, result |-> decompose(task, base)]
        /\ UNCHANGED <<now, task_queue, backpressure, circuit_breaker,
                       orchVars, pending, obs>>

DecomposeInit == ManagerInit(QueueCapacity, DefaultSecurityConfig)

DecomposeNext == Decompose

SpecDecompose == DecomposeInit /\ [][DecomposeNext]_vars

(***************************************************************************)
(* Recovery of the breaker in the running manager: one CodeGeneration      *)
(* request, a backend that may fail, the clock, and a fair scheduler: a    *)
(* caller inside create_task, the queue processor and every spawned        *)
(* execution keep taking steps while they can.                             *)
(***************************************************************************)
RecoveryNext ==
    \/ \E c \in Clients : E2ECaller(c)
    \/ queue_processor
    \/ \E t \in DOMAIN execs : ExecutionStep(t)
    \/ Tick

RecoveryFairness ==
    /\ \A c \in Clients : WF_vars(E2ECaller(c))
    /\ WF_vars(queue_processor)
    /\ \A t \in E2ETaskIds : WF_vars(t \in DOMAIN execs /\ ExecutionStep(t))

SpecRecovery == E2EInit /\ [][RecoveryNext]_vars /\ RecoveryFairness

(***************************************************************************)
(* The CheckpointManager alone (fault_tolerance.rs:272-302): checkpoints   *)
(* are saved, loaded and removed for two task ids in any order.  Every     *)
(* call holds the lock of the map for its whole body.  The observer keeps  *)
(* the log of the calls made.                                              *)
(***************************************************************************)
CheckpointTasks == {1, 2}

CheckpointAgents == {1, 2}

CheckpointData == {"a", "b"}

\* TaskCheckpoint without created_at, which the manager never reads
TaskCheckpoint(task_id, agent_id, checkpoint_data) ==
    [task_id |-> task_id, agent_id |-> agent_id,
     checkpoint_data |-> checkpoint_data]

save_checkpoint_KeepsFirst(cm, checkpoint) ==
    [cm EXCEPT !.checkpoints =
        IF checkpoint.task_id \in DOMAIN @ THEN @
        ELSE Insert(@, checkpoint.task_id, checkpoint)]

save_checkpoint(cm, checkpoint) ==
    [cm EXCEPT !.checkpoints = Insert(@, checkpoint.task_id, checkpoint)]

\* an Option<TaskCheckpoint> is a sequence of at most one checkpoint
load_checkpoint(cm, task_id) ==
    IF task_id \in DOMAIN cm.checkpoints
    THEN <<cm.checkpoints[task_id]>> ELSE <<>>

remove_checkpoint(cm, task_id) ==
    [cm EXCEPT !.checkpoints = [k \in DOMAIN @ \ {task_id} |-> @[k]]]

CPLogged(op, task_id, checkpoint) ==
    /\ Len(obs.log) < MaxCheckpointCalls
    /\ obs' = [obs EXCEPT !.log =
                  Append(@, [op |-> op, task |-> task_id, saved |-> checkpoint])]
    /\ UNCHANGED <<now, task_queue, backpressure, circuit_breaker, tasks,
                   agents, health_monitor, metrics, security_config, retry,
                   locks, uuid, callers, loop, execs, pending>>

CPSave(checkpoint) ==
    /\ checkpoint_manager' = save_checkpoint(checkpoint_manager, checkpoint)
    /\ ret' = [op |-> "save_checkpoint", ok |-> TRUE,
               task |-> checkpoint.task_id, calls |-> ret.calls + 1]
    /\ CPLogged("save", checkpoint.task_id, <<checkpoint>>)

CPLoad(task_id) ==
    /\ ret' = [op |-> "load_checkpoint", ok |-> TRUE, task |-> task_id,
               calls |-> ret.calls + 1,
               result |-> load_checkpoint(checkpoint_manager, task_id)]
    /\ UNCHANGED checkpoint_manager
    /\ CPLogged("load", task_id, <<>>)

CPRemove(task_id) ==
    /\ checkpoint_manager' = remove_checkpoint(checkpoint_manager, task_id)
    /\ ret' = [op |-> "remove_checkpoint", ok |-> TRUE, task |-> task_id,
               calls |-> ret.calls + 1]
    /\ CPLogged("remove", task_id, <<>>)

CheckpointInit ==
    /\ now = 0
    /\ task_queue = NewTaskQueue(1)
    /\ backpressure = NewBackpressure(1)
    /\ circuit_breaker = NewCircuitBreaker(1, TicksPerSec)
    /\ ret = [op |-> "new", ok |-> TRUE, task |-> NoTask, calls |-> 0]
    /\ obs = NoObs
    /\ pending = NoPending
    /\ OrchIdle

CheckpointNext ==
    \/ \E t \in CheckpointTasks, a \in CheckpointAgents, d \in CheckpointData :
          CPSave(TaskCheckpoint(t, a, d))
    \/ \E t \in CheckpointTasks : CPLoad(t)
    \/ \E t \in CheckpointTasks : CPRemove(t)

SpecCheckpoint == CheckpointInit /\ [][CheckpointNext]_vars

(***************************************************************************)
(* execute_with_retry alone (fault_tolerance.rs:137-178), called with any  *)
(* RetryConfig and an operation that may fail with either of two errors.   *)
(* Durations are whole milliseconds.  A backoff_multiplier is a pair       *)
(* <<n, d>> for the f64 n/d; the multipliers drawn are exact as f64, and   *)
(* the cast `as u64` of the product drops its fraction.  The observer logs *)
(* the outcome of every invocation of the operation.                       *)
(***************************************************************************)
BackoffMultipliers == {<<1, 2>>, <<1, 1>>, <<3, 2>>, <<2, 1>>}

RetryErrors == {"e1", "e2"}

RetryConfig(max_retries, initial_delay, max_delay, backoff_multiplier) ==
    [max_retries |-> max_retries, initial_delay |-> initial_delay,
     max_delay |-> max_delay, backoff_multiplier |-> backoff_multiplier]

\* for attempt in 0..=config.max_retries
AttemptRange_OneMore(config) == 0..(config.max_retries + 1)

AttemptRange(config) == 0..config.max_retries

\* Duration::from_millis((delay.as_millis() as f64 * m) as u64).min(max_delay)
next_delay(delay, config) ==
    LET m == config.backoff_multiplier
        product == (delay * m[1]) \div m[2]
    IN  IF product < config.max_delay THEN product ELSE config.max_delay

\* the loop goes on to its next attempt, or ends and the call returns the
\* last error
NextAttempt(r) ==
    IF r.attempt + 1 \in AttemptRange(r.config)
    THEN [r EXCEPT !.attempt = @ + 1, !.pc = "call"]
    ELSE [r EXCEPT !.pc = "done",
                   !.result = [ok |-> FALSE, value |-> r.last_error]]

RetryCall(config) ==
    [pc |-> IF 0 \in AttemptRange(config) THEN "call" ELSE "done",
     config |-> config, attempt |-> 0, delay |-> config.initial_delay,
     last_error |-> None, sleeps |-> <<>>,
     result |-> [ok |-> FALSE, value |-> None]]

\* operation().await and the match on its result, up to the sleep
RT_Operation(outcomes) ==
    /\ retry.pc = "call"
    /\ \E o \in outcomes :
         /\ retry' =
              IF o = "Ok"
              THEN [retry EXCEPT !.pc = "done",
                                 !.result = [ok |-> TRUE, value |-> o]]
              ELSE IF retry.attempt < retry.config.max_retries
                   THEN [retry EXCEPT !.last_error = o, !.pc = "sleep"]
                   ELSE NextAttempt([retry EXCEPT !.last_error = o])
         /\ obs' = [obs EXCEPT !.log = Append(@, o)]
    /\ UNCHANGED <<now, task_queue, backpressure, circuit_breaker, tasks,
                   agents, health_monitor, metrics, security_config,
                   checkpoint_manager, locks, uuid, callers, loop, execs,
                   pending, ret>>

\* tokio::time::sleep(delay).await, then the next delay is computed
RT_Sleep ==
    /\ retry.pc = "sleep"
    /\ retry' = NextAttempt([retry EXCEPT
                    !.sleeps = Append(@, retry.delay),
                    !.delay = next_delay(retry.delay, retry.config)])
    /\ UNCHANGED <<now, task_queue, backpressure, circuit_breaker, tasks,
                   agents, health_monitor, metrics, security_config,
                   checkpoint_manager, locks, uuid, callers, loop, execs,
                   pending, ret, obs>>

RetryInit ==
    /\ now = 0
    /\ task_queue = NewTaskQueue(1)
    /\ backpressure = NewBackpressure(1)
    /\ circuit_breaker = NewCircuitBreaker(1, TicksPerSec)
    /\ tasks = <<>>
    /\ agents = <<>>
    /\ health_monitor = NewHealthMonitor(1)
    /\ metrics = NewMetrics
    /\ security_config = DefaultSecurityConfig
    /\ checkpoint_manager = NewCheckpointManager
    /\ \E n \in 0..MaxRetries, initial_delay \in 0..MaxDelayMs,
          max_delay \in 0..MaxDelayMs, m \in BackoffMultipliers :
         retry = RetryCall(RetryConfig(n, initial_delay, max_delay, m))
    /\ locks = [queue |-> None, size |-> None]
    /\ uuid = 0
    /\ callers = [c \in Callers |-> IdleCaller]
    /\ loop = IdleLoop
    /\ execs = <<>>
    /\ pending = NoPending
    /\ ret = [op |-> "new", ok |-> TRUE, task |-> NoTask, calls |-> 0]
    /\ obs = NoObs

RetryNext == RT_Operation({"Ok"} \cup RetryErrors) \/ RT_Sleep

\* the operation's future resolves and the sleep ends
RetryFairness == WF_vars(RetryNext)

SpecRetry == RetryInit /\ [][RetryNext]_vars /\ RetryFairness

(* C1: dequeue() removes and returns an item whose priority_score is the   *)
(* greatest among the queued items (so items of priorities Urgent, High,   *)
(* Medium, Low enqueued at one instant leave in that order).               *)
C1_DequeueReturnsMax ==
    [][(QDequeue /\ task_queue.queue # {}) =>
          \E item \in task_queue.queue :
              /\ task_queue'.queue = task_queue.queue \ {item}
              /\ ret'.task = item.task.id
              /\ \A other \in task_queue.queue :
                     other.priority_score <= item.priority_score]_vars

(* C2: under every interleaving of concurrent reserve() and release()     *)
(* calls current_count() stays in 0..max_concurrent_tasks; reserve() adds  *)
(* 1 and returns Ok, or at the maximum returns Err and changes nothing;    *)
(* release() subtracts 1 and does nothing at 0.                            *)
C2_BackpressureBounds ==
    /\ [](/\ current_count(backpressure) >= 0
          /\ current_count(backpressure) <= backpressure.max_concurrent_tasks)
    /\ [][\A th \in Threads : BPReserve(th) =>
            IF backpressure.current_concurrent = backpressure.max_concurrent_tasks
            THEN backpressure' = backpressure /\ pending'[th].result = "Err"
            ELSE /\ backpressure'.current_concurrent =
                        backpressure.current_concurrent + 1
                 /\ pending'[th].result = "Ok"]_vars
    /\ [][\A th \in Threads : BPRelease(th) =>
            backpressure'.current_concurrent =
                IF backpressure.current_concurrent = 0 THEN 0
                ELSE backpressure.current_concurrent - 1]_vars

C2_Witness ==
    /\ backpressure.max_concurrent_tasks = MaxConcurrent
    /\ backpressure.current_concurrent = MaxConcurrent
    /\ \E th \in Threads : pending[th].op = "reserve" /\ pending[th].result = "Err"
    /\ \E th \in Threads : pending[th].op = "release" /\ pending[th].result = None

(* C4: on a breaker that was Closed with failure_count 0, is_open() is    *)
(* false after fewer than failure_threshold record_failure() calls in a    *)
(* row and true after the failure_threshold-th; a record_success() while   *)
(* Closed starts the count again.                                          *)
C4_OpensAtThreshold ==
    /\ [](/\ obs.fail_streak \in 0..(circuit_breaker.failure_threshold - 1)
                => ~is_open(circuit_breaker)
          /\ obs.fail_streak = circuit_breaker.failure_threshold
                => is_open(circuit_breaker))
    /\ [][(CBRecordSuccess /\ circuit_breaker.state = "Closed")
            => obs'.fail_streak = 0]_vars

C4_Witness ==
    /\ ret.op = "record_failure"
    /\ circuit_breaker.failure_threshold = MaxThreshold
    /\ obs.fail_streak = MaxThreshold
    /\ is_open(circuit_breaker)

(* C5: on an Open breaker try_half_open() returns true and moves to        *)
(* HalfOpen with success_count 0 if and only if at least `timeout` has     *)
(* passed since the last recorded failure; otherwise it returns false and  *)
(* changes nothing.                                                        *)
C5_HalfOpenIffTimeoutElapsed ==
    [][(CBTryHalfOpen /\ circuit_breaker.state = "Open") =>
          IF now - circuit_breaker.last_failure_time >= circuit_breaker.timeout
          THEN /\ ret'.ok = TRUE
               /\ circuit_breaker' = [circuit_breaker EXCEPT
                                        !.state = "HalfOpen", !.success_count = 0]
          ELSE /\ ret'.ok = FALSE
               /\ circuit_breaker' = circuit_breaker]_vars

(* C6: once HalfOpen, success_threshold (3) record_success() calls in a   *)
(* row close the breaker and reset both counters; after fewer it is still  *)
(* HalfOpen.                                                               *)
C6_ClosesAfterThreeSuccesses ==
    /\ obs.success_streak \in 0..(SuccessThreshold - 1)
          => /\ circuit_breaker.state = "HalfOpen"
             /\ circuit_breaker.success_count = obs.success_streak
    /\ obs.success_streak = SuccessThreshold
          => /\ circuit_breaker.state = "Closed"
             /\ circuit_breaker.failure_count = 0
             /\ circuit_breaker.success_count = 0

C6_Witness ==
    /\ ret.op = "record_success"
    /\ obs.success_streak = SuccessThreshold
    /\ circuit_breaker.state = "Closed"

(* C9: enqueue on a full queue returns an error and changes nothing;      *)
(* otherwise it succeeds and size() grows by exactly 1; size() never       *)
(* exceeds the capacity under enqueue, dequeue and clear.                  *)
C9_EnqueueCapacity ==
    /\ [](/\ task_queue.current_size <= task_queue.max_size
          /\ task_queue.current_size = Cardinality(task_queue.queue))
    /\ [][QEnqueue =>
            IF task_queue.current_size >= task_queue.max_size
            THEN ret'.ok = FALSE /\ task_queue' = task_queue
            ELSE /\ ret'.ok = TRUE
                 /\ task_queue'.current_size = task_queue.current_size + 1
                 /\ \E x \in task_queue'.queue :
                        /\ x \notin task_queue.queue
                        /\ x.task.id = ret'.task
                        /\ task_queue'.queue = task_queue.queue \cup {x}]_vars

C9_Witness ==
    /\ ret.op = "enqueue" /\ ret.ok = FALSE
    /\ task_queue.current_size = task_queue.max_size
    /\ task_queue.max_size = MaxQueueSize

(***************************************************************************)
(* C7: end to end, once create_task has been called for one                *)
(* CodeGeneration task of High priority, with a backend that always        *)
(* succeeds and a fair scheduler, eventually its three sub-tasks are       *)
(* Completed in the task table, successful_tasks is 3, the queue is empty  *)
(* and no execution is in flight.                                          *)
(***************************************************************************)
E2ESubTasks == {IdStride + i : i \in 1..3}

E2EDone ==
    /\ \A t \in E2ESubTasks : t \in DOMAIN tasks /\ tasks[t].status = "Completed"
    /\ metrics.successful_tasks = 3
    /\ task_queue.current_size = 0
    /\ current_count(backpressure) = 0
    /\ DOMAIN execs = {}

C7_EndToEnd == (uuid = 1) ~> E2EDone

(***************************************************************************)
(* C3: in every reachable state of the manager the number of executions    *)
(* that have been dispatched and have not finished equals                  *)
(* BackpressureManager::current_count() and is at most                     *)
(* max_concurrent_tasks.                                                   *)
(***************************************************************************)
InFlight == DOMAIN execs

C3_InFlightBounded ==
    /\ Cardinality(InFlight) = current_count(backpressure)
    /\ Cardinality(InFlight) <= backpressure.max_concurrent_tasks

\* the limit is reached while the backend is at work for every slot
C3_Witness ==
    /\ Cardinality(InFlight) = backpressure.max_concurrent_tasks
    /\ \A t \in InFlight : execs[t].pc = "execute"

(***************************************************************************)
(* C8: no dispatched execution is still waiting for the backend once the   *)
(* timeout of its task's kind has passed since it began to wait.           *)
(***************************************************************************)
C8_ExecutionBoundedByTimeout ==
    \A t \in InFlight :
        execs[t].pc = "execute" =>
            now - execs[t].start_time <= get_timeout_for_task(execs[t].type)

(***************************************************************************)
(* C10: when create_task has returned an error, the call has changed       *)
(* neither the task table, nor the queue, nor the metrics.                 *)
(***************************************************************************)
ReturnedError(c) ==
    callers[c].pc = "idle" /\ callers[c].result \notin {None, "Ok"}

C10_ErrorLeavesStateUnchanged ==
    \A c \in Callers : ReturnedError(c) => ~obs.touched[c]

\* a call is refused for a full queue while the table and the queue hold the
\* tasks of an earlier call
C10_Witness ==
    /\ ReturnedError("c1")
    /\ callers["c1"].result = "QueueFull"
    /\ DOMAIN tasks # {}
    /\ task_queue.current_size > 0

(***************************************************************************)
(* C11: a create_agent call made when the agent table already holds        *)
(* max_agents_per_user agents returns the TooManyAgents error, and a call  *)
(* that returns an error has changed neither the agent table nor           *)
(* total_agents_created nor active_agents.                                 *)
(***************************************************************************)
Returned(c) == callers[c].pc = "idle" /\ callers[c].result # None

C11_AgentCapRefusal ==
    \A c \in Callers :
        /\ (Returned(c) /\ obs.full_at_call[c])
               => callers[c].result = "TooManyAgents"
        /\ (Returned(c) /\ callers[c].result # "Ok") => ~obs.touched_agents[c]

C11_Witness ==
    \E c \in Callers :
        /\ Returned(c) /\ obs.full_at_call[c]
        /\ callers[c].result = "TooManyAgents"
        /\ Cardinality(DOMAIN agents) = security_config.max_agents_per_user

(***************************************************************************)
(* C12: the agent table never holds more than max_agents_per_user agents,  *)
(* under every interleaving of concurrent create_agent calls.              *)
(***************************************************************************)
C12_AgentTableBounded ==
    Cardinality(DOMAIN agents) <= security_config.max_agents_per_user

(***************************************************************************)
(* C13: the calls on the TaskQueue never wait for ever on each other's     *)
(* locks: there is no state in which the holder of the current_size lock   *)
(* waits for the queue lock while the holder of the queue lock waits for   *)
(* the current_size lock.                                                  *)
(***************************************************************************)
QueueUsers == Clients \cup {"loop"}

\* the lock the queue call of p is waiting for, if any
WaitsFor(p) ==
    IF Proc(p).pc = "enq_queue" THEN "queue"
    ELSE IF p = "loop" /\ loop.pc = "dequeue_size" THEN "size"
    ELSE None

C13_NoLockCycle ==
    ~ \E p, q \in QueueUsers :
          /\ locks.size = p /\ WaitsFor(p) = "queue"
          /\ locks.queue = q /\ WaitsFor(q) = "size"

(***************************************************************************)
(* C14: whenever the queue processor dispatches a task (reserves a slot    *)
(* and spawns its execution), the circuit breaker is not Open.             *)
(***************************************************************************)
Dispatch == QP_Reserve /\ DOMAIN execs' # DOMAIN execs

C14_NoDispatchWhileOpen ==
    [][Dispatch => ~is_open(circuit_breaker)]_vars

(***************************************************************************)
(* C15: once the status of a task in the task table is Completed or        *)
(* Failed, no step changes the status of that entry.                       *)
(***************************************************************************)
Terminal(status) == status \in {"Completed", "Failed"}

C15_TerminalStatusKept ==
    [][\A t \in DOMAIN tasks :
          Terminal(tasks[t].status) =>
              t \in DOMAIN tasks' /\ tasks'[t].status = tasks[t].status]_vars

(***************************************************************************)
(* C16: when create_task returns Ok, every sub-task of the task has been   *)
(* pushed onto the queue.                                                  *)
(***************************************************************************)
SubTaskIdsOf(me) ==
    {me.base + i : i \in 1..Len(SubTaskPlan(me.type, me.priority))}

ReturnsOk(c) ==
    callers[c].pc \in {"sub_store", "enq_size", "enq_queue"}
        /\ callers'[c].pc = "idle" /\ callers'[c].result = "Ok"

C16_OkMeansAllEnqueued ==
    [][\A c \in Callers :
          ReturnsOk(c) => SubTaskIdsOf(callers[c]) \subseteq obs'.enqueued]_vars

(***************************************************************************)
(* C17: after any sequence of record_execution calls for an agent, the     *)
(* agent is unhealthy exactly when the calls end with at least             *)
(* unhealthy_threshold failures in a row, consecutive_failures is the      *)
(* length of that run of failures, and so one success makes the agent      *)
(* healthy again with consecutive_failures 0.                              *)
(***************************************************************************)
RECURSIVE TrailingFailures(_)
TrailingFailures(h) ==
    IF h = <<>> \/ h[Len(h)] THEN 0
    ELSE 1 + TrailingFailures(SubSeq(h, 1, Len(h) - 1))

C17_UnhealthyAtThreshold ==
    \A a \in DOMAIN obs.history :
        /\ a \in DOMAIN health_monitor.agent_health
        /\ health_monitor.agent_health[a].consecutive_failures
               = TrailingFailures(obs.history[a])
        /\ is_healthy(health_monitor, a)
               <=> (TrailingFailures(obs.history[a])
                        < health_monitor.unhealthy_threshold)

\* an agent made unhealthy by a run of failures is healthy after one success
C17_Witness ==
    \E a \in DOMAIN obs.history :
        LET h == obs.history[a] IN
        /\ Len(h) > health_monitor.unhealthy_threshold
        /\ h[Len(h)]
        /\ TrailingFailures(SubSeq(h, 1, Len(h) - 1))
               >= health_monitor.unhealthy_threshold
        /\ is_healthy(health_monitor, a)

(***************************************************************************)
(* C18: is_healthy is true for an agent never passed to record_execution,  *)
(* and get_unhealthy_agents is exactly the set of agents for which         *)
(* is_healthy is false.                                                    *)
(***************************************************************************)
C18_UnhealthyListing ==
    /\ \A a \in HealthAgents \ DOMAIN obs.history :
           is_healthy(health_monitor, a)
    /\ get_unhealthy_agents(health_monitor)
           = {a \in HealthAgents : ~is_healthy(health_monitor, a)}

C18_Witness ==
    /\ HealthAgents \ DOMAIN obs.history # {}
    /\ get_unhealthy_agents(health_monitor) # {}
    /\ \E a \in DOMAIN obs.history : is_healthy(health_monitor, a)

(***************************************************************************)
(* C19: decompose gives each kind of task a fixed sequence of sub-tasks:   *)
(* CodeGeneration -> CodeAnalysis, CodeGeneration, CodeAnalysis (High);    *)
(* Refactoring -> CodeAnalysis, Refactoring, Testing (High);               *)
(* Debugging -> CodeAnalysis (Urgent), Debugging (Urgent), Testing (High); *)
(* Testing -> CodeAnalysis, Testing; Documentation -> CodeAnalysis,        *)
(* Documentation; CodeAnalysis -> CodeAnalysis.  A sub-task with no stated *)
(* priority has the task's priority, and the parent id of every sub-task   *)
(* is the task's id.                                                       *)
(***************************************************************************)
ExpectedSubTasks(ty, p) ==
    CASE ty = "CodeGeneration" ->
            <<<<"CodeAnalysis", p>>, <<"CodeGeneration", p>>,
              <<"CodeAnalysis", "High">>>>
      [] ty = "Refactoring" ->
            <<<<"CodeAnalysis", p>>, <<"Refactoring", p>>,
              <<"Testing", "High">>>>
      [] ty = "Debugging" ->
            <<<<"CodeAnalysis", "Urgent">>, <<"Debugging", "Urgent">>,
              <<"Testing", "High">>>>
      [] ty = "Testing" -> <<<<"CodeAnalysis", p>>, <<"Testing", p>>>>
      [] ty = "Documentation" ->
            <<<<"CodeAnalysis", p>>, <<"Documentation", p>>>>
      [] ty = "CodeAnalysis" -> <<<<"CodeAnalysis", p>>>>

Decomposed == ret.op = "decompose"

C19_FixedSubTaskSequences ==
    Decomposed =>
        LET subs == ret.result.subtasks IN
        /\ [i \in 1..Len(subs) |-> <<subs[i].task_type, subs[i].priority>>]
               = ExpectedSubTasks(ret.task.type, ret.task.priority)
        /\ \A i \in 1..Len(subs) : subs[i].parent_id = ret.task.id

\* a Debugging task of Low priority, decomposed with ids of their own
C19_Witness ==
    /\ Decomposed
    /\ ret.task.type = "Debugging" /\ ret.task.priority = "Low"
    /\ ret.result.subtasks[1].id # ret.task.id + 1

(***************************************************************************)
(* C20: a decomposition with N sub-tasks has N-1 dependencies, one for     *)
(* each sub-task but the first, in order; the i-th sub-task depends on all *)
(* the sub-tasks before it, in order, and the kind is Sequential.  So the  *)
(* list is not empty for two sub-tasks or more and empty for a             *)
(* CodeAnalysis task.                                                      *)
(***************************************************************************)
C20_SequentialDependencies ==
    Decomposed =>
        LET subs == ret.result.subtasks
            deps == ret.result.dependencies
            N == Len(subs)
        IN  /\ Len(deps) = N - 1
            /\ \A i \in 2..N :
                  /\ deps[i - 1].task_id = subs[i].id
                  /\ deps[i - 1].depends_on = [j \in 1..(i - 1) |-> subs[j].id]
                  /\ deps[i - 1].dependency_type = "Sequential"
            /\ \A k \in 1..Len(deps) : deps[k].task_id # subs[1].id
            /\ (N >= 2) => deps # <<>>
            /\ (ret.task.type = "CodeAnalysis") => deps = <<>>

C20_Witness ==
    /\ Decomposed
    /\ Len(ret.result.subtasks) = 3
    /\ Len(ret.result.dependencies[2].depends_on) = 2


(* C21: among queued items of equal priority_score, dequeue() returns the  *)
(* one with the earliest queued_at: items of equal score leave the queue   *)
(* in the order they entered it.                                           *)
C21_TiesLeaveOldestFirst ==
    [][(QDequeue /\ task_queue.queue # {}) =>
          \E item \in task_queue.queue :
              /\ task_queue'.queue = task_queue.queue \ {item}
              /\ \A other \in task_queue.queue :
                     other.priority_score = item.priority_score
                         => item.queued_at <= other.queued_at]_vars


(* C22: an execution whose backend call has returned performs, each once,  *)
(* in this order and with the outcome the backend gave: the task's status  *)
(* becomes Completed on success and Failed on failure; the worker's status *)
(* becomes Idle or Failed and its current_task is cleared; one             *)
(* record_execution; one record_success or record_failure; one completion  *)
(* record in the metrics; and, last of all, one release().                 *)
C22_CompletionUpdates ==
    [][\A t \in DOMAIN execs :
         LET e == execs[t]
             success == e.outcome = "Ok"
             a == e.agent
             h == IF a \in DOMAIN health_monitor.agent_health
                  THEN health_monitor.agent_health[a] ELSE NewAgentHealth
             moved(pc) == t \in DOMAIN execs' /\ execs'[t] = [e EXCEPT !.pc = pc]
         IN  (e.outcome # None /\ (t \notin DOMAIN execs' \/ execs'[t] # e)) =>
               CASE e.pc = "update_task" ->
                      /\ moved("update_agent")
                      /\ tasks'[t].status =
                             IF success THEN "Completed" ELSE "Failed"
                      /\ UNCHANGED <<agents, health_monitor, circuit_breaker,
                                     metrics, backpressure>>
                 [] e.pc = "update_agent" ->
                      /\ moved("record_health")
                      /\ agents'[a].status = IF success THEN "Idle" ELSE "Failed"
                      /\ agents'[a].current_task = NoTask
                      /\ UNCHANGED <<tasks, health_monitor, circuit_breaker,
                                     metrics, backpressure>>
                 [] e.pc = "record_health" ->
                      /\ moved("record_breaker")
                      /\ health_monitor'.agent_health[a].total_executions
                             = h.total_executions + 1
                      /\ health_monitor'.agent_health[a].successful_executions
                             = h.successful_executions + (IF success THEN 1 ELSE 0)
                      /\ UNCHANGED <<tasks, agents, circuit_breaker, metrics,
                                     backpressure>>
                 [] e.pc = "record_breaker" ->
                      /\ moved("record_metrics")
                      /\ circuit_breaker' =
                             IF success THEN record_success(circuit_breaker)
                             ELSE record_failure(circuit_breaker, now)
                      /\ UNCHANGED <<tasks, agents, health_monitor, metrics,
                                     backpressure>>
                 [] e.pc = "record_metrics" ->
                      /\ moved("release")
                      /\ metrics'.successful_tasks + metrics'.failed_tasks
                             = metrics.successful_tasks + metrics.failed_tasks + 1
                      /\ metrics'.successful_tasks
                             = metrics.successful_tasks + (IF success THEN 1 ELSE 0)
                      /\ UNCHANGED <<tasks, agents, health_monitor,
                                     circuit_breaker, backpressure>>
                 [] e.pc = "release" ->
                      /\ t \notin DOMAIN execs'
                      /\ backpressure'.current_concurrent
                             = backpressure.current_concurrent - 1
                      /\ UNCHANGED <<tasks, agents, health_monitor,
                                     circuit_breaker, metrics>>
                 [] OTHER -> FALSE]_vars

\* a failed execution has made every update and is about to release its slot
C22_Witness ==
    \E t \in DOMAIN execs :
        /\ execs[t].pc = "release" /\ execs[t].outcome = "Err"
        /\ tasks[t].status = "Failed"
        /\ agents[execs[t].agent].status = "Failed"
        /\ execs[t].agent \in DOMAIN health_monitor.agent_health
        /\ metrics.failed_tasks > 0


(* C23: every task the control loop dequeues ends Completed or Failed in   *)
(* the task table: when the task spawned for a dequeued item ends, a task  *)
(* for which no worker could be found or created included, the item's      *)
(* entry is Completed or Failed and not still Pending.  (No later step     *)
(* writes the entry, so an entry left Pending here stays Pending.)         *)
C23_DequeuedTaskEndsTerminal ==
    [][\A t \in DOMAIN execs :
         t \notin DOMAIN execs' =>
             t \in DOMAIN tasks' /\ Terminal(tasks'[t].status)]_vars

(* C24: a worker executes at most one task at a time: no two in-flight     *)
(* executions are assigned the same worker id.                             *)
C24_OneTaskPerWorker ==
    \A t1, t2 \in DOMAIN execs :
        (t1 # t2 /\ execs[t1].agent # NoTask) => execs[t1].agent # execs[t2].agent

(* C25: the worker find-or-create returns is an existing worker that, when *)
(* it is returned, has status Idle, can handle the task's kind and is      *)
(* reported healthy, or a new worker of the kind mapped from the task's    *)
(* kind; a worker with status Failed or reported unhealthy is never        *)
(* returned.                                                               *)
C25_SelectedWorkerIdleHealthy ==
    [][\A t \in DOMAIN execs :
         (execs[t].agent = NoTask /\ t \in DOMAIN execs'
              /\ execs'[t].agent # NoTask) =>
            LET a == execs'[t].agent IN
              \/ /\ a \in DOMAIN agents
                 /\ agents[a].status = "Idle"
                 /\ can_handle_task(agents[a], execs[t].type)
                 /\ is_healthy(health_monitor, a)
              \/ /\ a \notin DOMAIN agents
                 /\ agents'[a].agent_type = AgentTypeFor(execs[t].type)
                 /\ agents'[a].status = "Idle"]_vars

(* C26: every status change of an entry of the task table is Pending ->    *)
(* Processing, Processing -> Completed or Processing -> Failed; no entry   *)
(* goes from Pending directly to Completed or Failed.                      *)
C26_StatusFollowsLifecycle ==
    [][\A t \in DOMAIN tasks :
         (t \in DOMAIN tasks' /\ tasks'[t].status # tasks[t].status) =>
             <<tasks[t].status, tasks'[t].status>> \in
                 {<<"Pending", "Processing">>, <<"Processing", "Completed">>,
                  <<"Processing", "Failed">>}]_vars

(* C27: the parent task create_task stores is never enqueued nor           *)
(* dispatched, and its status stays Pending whatever becomes of its        *)
(* sub-tasks; only sub-tasks are queued and executed.                      *)
C27_ParentStaysPending ==
    /\ \A t \in DOMAIN tasks :
           t = ParentIdOf(t) => tasks[t].status = "Pending"
    /\ \A t \in obs.enqueued \cup DOMAIN execs
                   \cup {q.task.id : q \in task_queue.queue} :
           t # ParentIdOf(t)
    /\ loop.pc = "reserve" => loop.item.id # ParentIdOf(loop.item.id)

\* a parent is Pending while one of its sub-tasks has Completed and another
\* has Failed
C27_Witness ==
    \E p \in DOMAIN tasks, s1, s2 \in DOMAIN tasks :
        /\ p = ParentIdOf(p) /\ tasks[p].status = "Pending"
        /\ ParentIdOf(s1) = p /\ tasks[s1].status = "Completed"
        /\ ParentIdOf(s2) = p /\ tasks[s2].status = "Failed"

(* C28: the backend is called exactly once for each dequeued task: the     *)
(* task spawned for it does not call the backend again once the call has   *)
(* returned, it does not end without having called it, and a task that has *)
(* been executed is not put back in the queue.                             *)
C28_BackendCalledOncePerTask ==
    [][/\ \A t \in DOMAIN execs :
            /\ (execs[t].outcome # None /\ t \in DOMAIN execs')
                   => execs'[t].pc # "execute" /\ execs'[t].outcome = execs[t].outcome
            /\ t \notin DOMAIN execs' => execs[t].outcome # None
       /\ \A q \in task_queue'.queue \ task_queue.queue :
            /\ q.task.id \notin DOMAIN execs
            /\ q.task.id \in DOMAIN tasks => ~Terminal(tasks[q.task.id].status)
      ]_vars


(* C29 is about a reserve() that fails for a task the control loop has     *)
(* just dequeued.  The loop is the only caller of reserve() and calls it   *)
(* after can_accept() returned true, and every other user of the           *)
(* BackpressureManager only releases: when the loop is about to reserve, a *)
(* slot is free, and the loop never enters the re-queue branch.            *)
ReserveNeverFails ==
    /\ loop.pc = "reserve" => can_accept(backpressure)
    /\ loop.pc \notin {"enq_size", "enq_queue"}


(* C30: the breaker's state changes only along Closed -> Open             *)
(* (record_failure), Open -> HalfOpen (try_half_open), HalfOpen -> Closed  *)
(* (record_success) and HalfOpen -> Open (record_failure); try_half_open() *)
(* on a Closed breaker leaves it Closed and record_success() on an Open    *)
(* breaker leaves it Open.                                                 *)
C30_BreakerTransitions ==
    [][circuit_breaker'.state # circuit_breaker.state =>
          <<circuit_breaker.state, ret'.op, circuit_breaker'.state>> \in
              {<<"Closed", "record_failure", "Open">>,
               <<"Open", "try_half_open", "HalfOpen">>,
               <<"HalfOpen", "record_success", "Closed">>,
               <<"HalfOpen", "record_failure", "Open">>}]_vars


(* C31: record_failure() does in HalfOpen exactly what it does in Closed:  *)
(* it adds 1 to failure_count, sets last_failure_time, sets the state to   *)
(* Open if and only if the new failure_count >= failure_threshold, and     *)
(* leaves success_count unchanged.                                         *)
C31_HalfOpenFailureNotSpecial ==
    [][(CBRecordFailure /\ circuit_breaker.state \in {"HalfOpen", "Closed"}) =>
          /\ circuit_breaker'.failure_count = circuit_breaker.failure_count + 1
          /\ circuit_breaker'.last_failure_time = now
          /\ circuit_breaker'.success_count = circuit_breaker.success_count
          /\ circuit_breaker'.state =
                 IF circuit_breaker'.failure_count
                        >= circuit_breaker.failure_threshold
                 THEN "Open" ELSE circuit_breaker.state]_vars

\* a failure was recorded in HalfOpen below the threshold: still HalfOpen
C31_Witness ==
    /\ ret.op = "record_failure"
    /\ obs.before = "HalfOpen"
    /\ circuit_breaker.state = "HalfOpen"
    /\ circuit_breaker.success_count > 0

(* C32: try_half_open() from Open does not reset failure_count, so in a    *)
(* breaker that became HalfOpen from Open the first record_failure()       *)
(* reopens it, and it closes only through 3 record_success() calls in a    *)
(* row with no failure in between.                                         *)
C32_HalfOpenFromOpen ==
    [][/\ (CBTryHalfOpen /\ circuit_breaker.state = "Open"
               /\ circuit_breaker'.state = "HalfOpen")
            => /\ circuit_breaker'.failure_count = circuit_breaker.failure_count
               /\ circuit_breaker'.failure_count
                      >= circuit_breaker.failure_threshold
       /\ (CBRecordFailure /\ circuit_breaker.state = "HalfOpen"
               /\ obs.half_open_from = "Open")
            => circuit_breaker'.state = "Open"
       /\ (circuit_breaker.state = "HalfOpen" /\ obs.half_open_from = "Open"
               /\ circuit_breaker'.state = "Closed")
            => CBRecordSuccess /\ obs'.success_streak = SuccessThreshold
      ]_vars

\* the first failure after Open -> HalfOpen has reopened the breaker
C32_Witness ==
    /\ ret.op = "record_failure"
    /\ obs.before = "HalfOpen" /\ obs.half_open_from = "Open"
    /\ circuit_breaker.state = "Open"


(* C33: if the breaker is Open and the timeout has elapsed since the last  *)
(* failure then, unless a further failure is recorded, the queue processor *)
(* eventually moves the breaker out of Open and resumes: it dequeues a     *)
(* queued task for dispatch, or the queue is empty.                        *)
TimeoutElapsed ==
    /\ circuit_breaker.last_failure_time # NoTime
    /\ num_seconds(now - circuit_breaker.last_failure_time)
           >= as_secs(circuit_breaker.timeout)

C33_BreakerRecovers ==
    (is_open(circuit_breaker) /\ TimeoutElapsed)
        ~> \/ is_open(circuit_breaker) /\ ~TimeoutElapsed
           \/ /\ ~is_open(circuit_breaker)
              /\ task_queue.queue = {} \/ loop.pc = "reserve"

(* C34: a sub-task is not handed to the backend before every sub-task its  *)
(* depends_on lists has status Completed.  build_dependencies() lists, for *)
(* the i-th sub-task of a task, the sub-tasks 1..i-1 of that task.         *)
C34_DependenciesBeforeDispatch ==
    [][\A t \in DOMAIN execs :
          (execs[t].pc = "execute" /\ t \in DOMAIN execs'
               /\ execs'[t].pc = "update_task")
              => \A s \in (ParentIdOf(t) + 1)..(t - 1) :
                    s \in DOMAIN tasks /\ tasks[s].status = "Completed"]_vars


(* C35: the metrics counters stay consistent: successful_tasks +           *)
(* failed_tasks <= total_tasks_executed, and active_tasks >= 0.            *)
C35_MetricsConsistent ==
    /\ metrics.successful_tasks + metrics.failed_tasks
           <= metrics.total_tasks_executed
    /\ metrics.active_tasks >= 0


(* C36: the task table never holds more than max_tasks_per_user tasks.     *)
C36_TaskCountCap ==
    Cardinality(DOMAIN tasks) <= security_config.max_tasks_per_user

(* C37: after every record_execution(), each tracked worker is healthy     *)
(* exactly when its consecutive_failures is below unhealthy_threshold and  *)
(* has successful_executions <= total_executions; the call changes the     *)
(* record of the worker it names and no other record.                      *)
C37_HealthRecordsConsistent ==
    [][ret'.op = "record_execution" =>
          LET old == health_monitor.agent_health
              new == health_monitor'.agent_health
          IN  /\ health_monitor'.unhealthy_threshold >= 1
              /\ DOMAIN new = DOMAIN old \cup {ret'.task}
              /\ \A a \in DOMAIN new :
                    /\ new[a].is_healthy <=>
                           (new[a].consecutive_failures
                                < health_monitor'.unhealthy_threshold)
                    /\ new[a].successful_executions <= new[a].total_executions
              /\ \A a \in DOMAIN old \ {ret'.task} : new[a] = old[a]]_vars

\* one worker has just been recorded unhealthy while another, recorded
\* before it, is healthy with a failure of its own
C37_Witness ==
    /\ ret.op = "record_execution" /\ ~ret.ok
    /\ ~is_healthy(health_monitor, ret.task)
    /\ \E b \in DOMAIN health_monitor.agent_health \ {ret.task} :
          /\ health_monitor.agent_health[b].is_healthy
          /\ health_monitor.agent_health[b].consecutive_failures = 1

\* what the calls logged so far have left saved for a task id: the
\* checkpoint of the last save_checkpoint() for it, unless a
\* remove_checkpoint() for it came later
RECURSIVE LastSaved(_, _)
LastSaved(log, task_id) ==
    IF log = <<>> THEN <<>>
    ELSE LET last == log[Len(log)] IN
         IF last.task = task_id /\ last.op = "save" THEN last.saved
         ELSE IF last.task = task_id /\ last.op = "remove" THEN <<>>
         ELSE LastSaved(SubSeq(log, 1, Len(log) - 1), task_id)

(* C38: load_checkpoint(id) returns the checkpoint saved last for id, and  *)
(* None if none was saved or it has been removed since, and changes        *)
(* nothing; a remove_checkpoint() repeated changes nothing more; a save or *)
(* remove for one id leaves what load returns for any other id unchanged.  *)
C38_LastWriteWins ==
    [][LET id == ret'.task
           cm == checkpoint_manager
       IN  /\ ret'.op = "load_checkpoint" =>
                 /\ ret'.result = LastSaved(obs.log, id)
                 /\ cm' = cm
           /\ ret'.op = "save_checkpoint" =>
                 load_checkpoint(cm', id) = obs'.log[Len(obs'.log)].saved
           /\ ret'.op = "remove_checkpoint" =>
                 /\ load_checkpoint(cm', id) = <<>>
                 /\ remove_checkpoint(cm', id) = cm'
                 /\ load_checkpoint(cm, id) = <<>> => cm' = cm
           /\ ret'.op \in {"save_checkpoint", "remove_checkpoint"} =>
                 \A other \in CheckpointTasks \ {id} :
                     load_checkpoint(cm', other) = load_checkpoint(cm, other)
      ]_vars

\* a load has returned the second of two different checkpoints saved for
\* its id, after a checkpoint of the other id was removed
C38_Witness ==
    /\ ret.op = "load_checkpoint"
    /\ ret.result # <<>>
    /\ \E i \in 1..Len(obs.log) :
          /\ obs.log[i].op = "save"
          /\ obs.log[i].task = ret.task
          /\ obs.log[i].saved # ret.result
    /\ \E i \in 1..Len(obs.log) :
          obs.log[i].op = "remove" /\ obs.log[i].task # ret.task

(* C39: execute_with_retry ends, having invoked the operation at most      *)
(* max_retries + 1 times: it returns Ok at the first successful attempt    *)
(* and invokes the operation no more, and after max_retries + 1 failed     *)
(* attempts it returns the error of the last of them.                      *)
C39_RetryTerminates ==
    /\ []LET log == obs.log
             n == Len(log)
         IN  /\ n <= retry.config.max_retries + 1
             /\ \A i \in 1..n : log[i] = "Ok" =>
                   /\ i = n
                   /\ retry.pc = "done"
                   /\ retry.result = [ok |-> TRUE, value |-> "Ok"]
             /\ (n = retry.config.max_retries + 1 /\ log[n] # "Ok") =>
                   /\ retry.pc = "done"
                   /\ retry.result = [ok |-> FALSE, value |-> log[n]]
             /\ retry.pc = "done" =>
                   \/ n >= 1 /\ log[n] = "Ok"
                   \/ n = retry.config.max_retries + 1
    /\ <>(retry.pc = "done")

\* the call has returned the error of its third attempt, which differs
\* from the errors of the attempts before
C39_Witness ==
    /\ retry.pc = "done"
    /\ Len(obs.log) = 3
    /\ retry.config.max_retries = 2
    /\ retry.result = [ok |-> FALSE, value |-> "e2"]
    /\ obs.log[1] = "e1" /\ obs.log[2] = "e1"


\* b to the power e
RECURSIVE Pow(_, _)
Pow(b, e) == IF e = 0 THEN 1 ELSE b * Pow(b, e - 1)

(* C40: the delay slept before the k-th retry is                           *)
(* min(initial_delay * backoff_multiplier^(k-1), max_delay): no sleep is   *)
(* longer than max_delay, and the delays do not decrease when the          *)
(* multiplier is at least 1.  With the multiplier n/d, the k-th delay s    *)
(* is the minimum exactly when s * d^(k-1) is the smaller of               *)
(* initial_delay * n^(k-1) and max_delay * d^(k-1).                        *)
C40_BackoffDelays ==
    LET c == retry.config
        m == c.backoff_multiplier
        s == retry.sleeps
    IN  /\ \A k \in 1..Len(s) : s[k] <= c.max_delay
        /\ m[1] >= m[2] => \A k \in 1..(Len(s) - 1) : s[k] <= s[k + 1]
        /\ \A k \in 1..Len(s) :
              LET exact == c.initial_delay * Pow(m[1], k - 1)
                  cap == c.max_delay * Pow(m[2], k - 1)
              IN  s[k] * Pow(m[2], k - 1) = IF exact < cap THEN exact ELSE cap

====
